---- MODULE Spec2Model ----
(***************************************************************************)
(* A model of the Jenkins MCP server: the CallTool request handler of      *)
(* src/index.ts and the JenkinsClient it drives (jenkins-client.ts).       *)
(*                                                                         *)
(* Representation.  A JavaScript string is a sequence of tokens, each a    *)
(* TLA+ string: a literal of the source is one token, a value of which the *)
(* characters matter (a job name, a glob pattern) is one token per         *)
(* character.  The empty string is << >>.  A console text is represented   *)
(* by the sequence of lines text.split("\n") yields: every text has        *)
(* exactly one such sequence, it is never empty ("" splits to one empty    *)
(* line), and join("\n") maps it back.  Line numbers are 1-based, as the   *)
(* handler reports them (the source's index i is line i + 1).              *)
(***************************************************************************)
EXTENDS Integers, Sequences, FiniteSets, TLC

VARIABLES pc, request, now, sent, replies, responses, escaped, config, stderr, exitCode

vars == <<pc, request, now, sent, replies, responses, escaped, config, stderr, exitCode>>

(***************************************************************************)
(* Bounds of the model.                                                    *)
(***************************************************************************)
MaxLines == 5
MaxContext == 2
MaxCap == 3
BigExtra == 2
MaxPatLen == 3
MaxBuilds == 2
MaxColorTokens == 2
ExtraCases == 3
MaxStages == 3
MaxNodes == 3
MaxInvocations == 2

(***************************************************************************)
(* Generic helpers.                                                        *)
(***************************************************************************)
Min(a, b) == IF a < b THEN a ELSE b

Max(a, b) == IF a > b THEN a ELSE b

Range(s) == {s[i] : i \in DOMAIN s}

SeqsUpTo(S, n) == UNION {[1..k -> S] : k \in 0..n}

NonEmptySeqsUpTo(S, n) == UNION {[1..k -> S] : k \in 1..n}

\* A thrown Error (with its message) or a returned value.
Ok(v) == [ok |-> TRUE, value |-> v]

Throw(m) == [ok |-> FALSE, message |-> m]

\* Array.prototype.slice(start) and slice(0, end) on a 1-based sequence.
SliceFrom(s, start) ==
  LET n == Len(s)
      k == IF start < 0 THEN Max(n + start, 0) ELSE Min(start, n)
  IN  SubSeq(s, k + 1, n)

SliceTo(s, end) == SubSeq(s, 1, Min(Max(end, 0), Len(s)))

(***************************************************************************)
(* Upstream outcomes of one axios.get.  axios resolves on a 2xx status and *)
(* rejects otherwise; a rejection carries response.status only when the    *)
(* server answered.                                                        *)
(***************************************************************************)
HttpOk(data) == [kind |-> "ok", status |-> 200, data |-> data]

HttpFailures ==
  {[kind |-> "status", status |-> s] : s \in {401, 403, 404, 500}}
    \cup {[kind |-> "network", status |-> 0], [kind |-> "timeout", status |-> 0]}

\* err.response?.status (0 stands for undefined).
ErrStatus(o) == IF o.kind = "status" THEN o.status ELSE 0

\* err.message of a rejected axios.get.
AxiosMessage(o, timeout) ==
  CASE o.kind = "status" -> <<"Request failed with status code ", ToString(o.status)>>
    [] o.kind = "timeout" -> <<"timeout of ", ToString(timeout), "ms exceeded">>
    [] OTHER -> <<"Network Error">>

AuthFailedMessage ==
  <<"Authentication failed. Please check JENKINS_USERNAME and JENKINS_API_TOKEN.">>

ForbiddenMessage(jobName) ==
  <<"Access forbidden for job ">> \o jobName \o <<". User may not have permission.">>

BuildNotFoundMessage(jobName, buildNumber) ==
  <<"Build #", ToString(buildNumber), " not found for job: ">> \o jobName

JobNotFoundMessage(jobName) == <<"Job not found: ">> \o jobName

(***************************************************************************)
(* Dates.  TLC's integers are 32-bit, so the model's clock and timestamps  *)
(* lie in 0 .. 2^31 - 1 ms, all of them in January 1970.  An ISO string    *)
(* "1970-01-DDTHH:MM:SS.mmmZ" is the tuple of its numeric fields.          *)
(***************************************************************************)
MsPerHour == 60 * 60 * 1000

MsPerDay == 24 * MsPerHour

\* new Date(ts).toISOString()
ToISOString(ts) ==
  <<1970, 1, 1 + (ts \div MsPerDay), (ts % MsPerDay) \div MsPerHour,
    (ts % MsPerHour) \div 60000, (ts % 60000) \div 1000, ts % 1000>>

\* new Date(iso).getTime()
DateGetTime(iso) ==
  (iso[3] - 1) * MsPerDay + iso[4] * MsPerHour + iso[5] * 60000 + iso[6] * 1000 + iso[7]

(***************************************************************************)
(* Configuration and authentication.  The strings of the configuration are *)
(* one token per character.                                                *)
(***************************************************************************)
Null == "null"

\* Optional values (undefined / null) are sequences of length 0 or 1.
None == << >>

Some(v) == <<v>>

\* process.env.X || ""
OrEmpty(opt) == IF opt = None THEN << >> ELSE opt[1]

\* index.ts: const config = {...}
ConfigOf(env) ==
  [baseUrl |-> OrEmpty(env.JENKINS_URL),
   username |-> OrEmpty(env.JENKINS_USERNAME),
   apiToken |-> OrEmpty(env.JENKINS_API_TOKEN)]

\* new JenkinsClient(config): baseUrl.replace(/\/$/, "")
JenkinsClientOf(cfg) ==
  [baseUrl |-> IF cfg.baseUrl # << >> /\ cfg.baseUrl[Len(cfg.baseUrl)] = "/"
                 THEN SubSeq(cfg.baseUrl, 1, Len(cfg.baseUrl) - 1)
                 ELSE cfg.baseUrl,
   username |-> cfg.username,
   apiToken |-> cfg.apiToken]

\* The UTF-8 byte of a character of the configuration.
CharCode(c) ==
  CASE c = "0" -> 48 [] c = "3" -> 51 [] c = ":" -> 58 [] c = "c" -> 99
    [] c = "i" -> 105 [] c = "s" -> 115 [] c = "t" -> 116

Base64Alphabet ==
  <<"A", "B", "C", "D", "E", "F", "G", "H", "I", "J", "K", "L", "M", "N", "O", "P",
    "Q", "R", "S", "T", "U", "V", "W", "X", "Y", "Z", "a", "b", "c", "d", "e", "f",
    "g", "h", "i", "j", "k", "l", "m", "n", "o", "p", "q", "r", "s", "t", "u", "v",
    "w", "x", "y", "z", "0", "1", "2", "3", "4", "5", "6", "7", "8", "9", "+", "/">>

Sextet(n) == Base64Alphabet[n + 1]

\* Buffer.from(str).toString("base64"), three bytes at a time.
RECURSIVE Base64(_)
Base64(str) ==
  IF str = << >> THEN << >>
  ELSE LET b1 == CharCode(str[1])
           b2 == IF Len(str) >= 2 THEN CharCode(str[2]) ELSE 0
           b3 == IF Len(str) >= 3 THEN CharCode(str[3]) ELSE 0
           n == b1 * 65536 + b2 * 256 + b3
       IN  <<Sextet(n \div 262144),
             Sextet((n \div 4096) % 64),
             IF Len(str) >= 2 THEN Sextet((n \div 64) % 64) ELSE "=",
             IF Len(str) >= 3 THEN Sextet(n % 64) ELSE "=">>
             \o (IF Len(str) > 3 THEN Base64(SubSeq(str, 4, Len(str))) ELSE << >>)

\* Faulty variant: the header is attached as soon as a token is configured.
GetAuthHeadersTokenOnly(client) ==
  [ContentType |-> <<"application/json">>,
   Authorization |->
     IF client.apiToken # << >>
       THEN Some(<<"Basic ">> \o Base64(client.username \o <<":">> \o client.apiToken))
       ELSE None]

GetAuthHeaders(client) ==
  [ContentType |-> <<"application/json">>,
   Authorization |->
     IF client.username # << >> /\ client.apiToken # << >>
       THEN Some(<<"Basic ">> \o Base64(client.username \o <<":">> \o client.apiToken))
       ELSE None]

(***************************************************************************)
(* JenkinsClient: one operator per method, from the outcome(s) of its      *)
(* axios.get to the value it returns or the Error it throws.               *)
(***************************************************************************)
\* The body of an upstream error response.
ErrorBody == <<"<html>upstream error page</html>">>

\* What axios hands to the client for the outcome o of the request get: the
\* response or the error, either of which carries the request's config
\* (headers included); an error response carries its body.
AxiosResult(o, get) ==
  IF o.kind = "status" THEN o @@ [config |-> get, data |-> ErrorBody]
  ELSE o @@ [config |-> get]

\* Faulty variant: the request headers and the response body are appended
\* to the message.
ExtractSafeErrorWithDetails(error, timeout) ==
  [status |-> ErrStatus(error),
   message |-> AxiosMessage(error, timeout)
                 \o (IF error.config.headers.Authorization = None THEN << >>
                     ELSE error.config.headers.Authorization[1])
                 \o (IF error.kind = "status" THEN error.data ELSE << >>),
   url |-> error.config.path,
   method |-> error.config.method]

ExtractSafeError(error, timeout) ==
  [status |-> ErrStatus(error),
   message |-> AxiosMessage(error, timeout),
   url |-> error.config.path,
   method |-> error.config.method]

CatchAll(prefix, o, timeout) == Throw(<<prefix>> \o ExtractSafeError(o, timeout).message)

\* Faulty variant: every answer axios resolves with counts as healthy.
HealthCheckAnyResolution(o) ==
  IF o.kind = "ok"
    THEN Ok([healthy |-> TRUE, message |-> <<"Jenkins is reachable">>])
    ELSE Ok([healthy |-> FALSE,
             message |-> <<"Health check failed: ">> \o ExtractSafeError(o, 5000).message])

\* healthCheck when this.baseUrl is empty: it returns before any request.
HealthCheckUnconfigured ==
  Ok([healthy |-> FALSE, message |-> <<"No Jenkins base URL configured">>])

HealthCheck(o) ==
  IF o.kind = "ok"
    THEN IF o.status = 200
           THEN Ok([healthy |-> TRUE, message |-> <<"Jenkins is reachable">>])
           ELSE Ok([healthy |-> FALSE,
                    message |-> <<"Unexpected status: ", ToString(o.status)>>])
    ELSE Ok([healthy |-> FALSE,
             message |-> <<"Health check failed: ">> \o ExtractSafeError(o, 5000).message])

ListJobs(o) ==
  IF o.kind = "ok" THEN Ok(o.data) ELSE CatchAll("Failed to list jobs: ", o, 10000)

GetJobStatus(jobName, o) ==
  IF o.kind = "ok" THEN Ok(o.data)
  ELSE IF ErrStatus(o) = 404 THEN Throw(JobNotFoundMessage(jobName))
  ELSE IF ErrStatus(o) = 401 THEN Throw(AuthFailedMessage)
  ELSE IF ErrStatus(o) = 403 THEN Throw(ForbiddenMessage(jobName))
  ELSE CatchAll("Failed to get job status: ", o, 10000)

\* Faulty variant: the 404 branch is missing.
GetBuildDetailsWithout404(jobName, buildNumber, o) ==
  IF o.kind = "ok" THEN Ok(o.data)
  ELSE IF ErrStatus(o) = 401 THEN Throw(AuthFailedMessage)
  ELSE IF ErrStatus(o) = 403 THEN Throw(ForbiddenMessage(jobName))
  ELSE CatchAll("Failed to get build details: ", o, 10000)

GetBuildDetails(jobName, buildNumber, o) ==
  IF o.kind = "ok" THEN Ok(o.data)
  ELSE IF ErrStatus(o) = 404 THEN Throw(BuildNotFoundMessage(jobName, buildNumber))
  ELSE IF ErrStatus(o) = 401 THEN Throw(AuthFailedMessage)
  ELSE IF ErrStatus(o) = 403 THEN Throw(ForbiddenMessage(jobName))
  ELSE CatchAll("Failed to get build details: ", o, 10000)

GetLatestBuild(jobName, o) ==
  IF o.kind = "ok" THEN Ok(o.data.lastBuild)
  ELSE IF ErrStatus(o) = 404 THEN Throw(JobNotFoundMessage(jobName))
  ELSE IF ErrStatus(o) = 401 THEN Throw(AuthFailedMessage)
  ELSE IF ErrStatus(o) = 403 THEN Throw(ForbiddenMessage(jobName))
  ELSE CatchAll("Failed to get latest build: ", o, 10000)

GetBuildConsoleOutput(jobName, buildNumber, o) ==
  IF o.kind = "ok" THEN Ok(o.data)
  ELSE IF ErrStatus(o) = 404 THEN Throw(BuildNotFoundMessage(jobName, buildNumber))
  ELSE IF ErrStatus(o) = 401 THEN Throw(AuthFailedMessage)
  ELSE IF ErrStatus(o) = 403 THEN Throw(ForbiddenMessage(jobName))
  ELSE CatchAll("Failed to get console output: ", o, 30000)

\* color.replace("_anime", ""): the first occurrence is removed.
RECURSIVE RemoveFirst(_, _)
RemoveFirst(s, tok) ==
  IF s = << >> THEN << >>
  ELSE IF Head(s) = tok THEN Tail(s)
  ELSE <<Head(s)>> \o RemoveFirst(Tail(s), tok)

ColorToStatus(color) ==
  IF color = << >> THEN "unknown"
  ELSE IF color[Len(color)] = "_anime" THEN "building"
  ELSE LET baseColor == RemoveFirst(color, "_anime")
       IN  CASE baseColor = <<"blue">> -> "success"
             [] baseColor = <<"red">> -> "failure"
             [] baseColor = <<"yellow">> -> "unstable"
             [] baseColor = <<"aborted">> -> "aborted"
             [] baseColor = <<"notbuilt">> -> "not_built"
             [] baseColor = <<"disabled">> -> "not_built"
             [] OTHER -> "unknown"

JobSummaryOf(job) ==
  [name |-> job.name,
   url |-> job.url,
   status |-> ColorToStatus(job.color),
   lastBuildNumber |-> IF job.lastBuild = None THEN None
                       ELSE Some(job.lastBuild[1].number),
   lastBuildTime |-> IF job.lastBuild = None THEN None
                     ELSE Some(ToISOString(job.lastBuild[1].timestamp))]

ListJobsSummary(o) ==
  IF o.kind = "ok"
    THEN Ok([i \in 1..Len(o.data.jobs) |-> JobSummaryOf(o.data.jobs[i])])
    ELSE CatchAll("Failed to list jobs: ", o, 10000)

\* The builds of one job that getFailedJobs keeps, in upstream order.
RECURSIVE FailedBuildsOf(_, _, _)
FailedBuildsOf(job, builds, cutoffTime) ==
  IF builds = << >> THEN << >>
  ELSE LET build == Head(builds)
           rest == FailedBuildsOf(job, Tail(builds), cutoffTime)
       IN  IF build.timestamp >= cutoffTime
              /\ (build.result = "FAILURE" \/ build.result = "UNSTABLE")
             THEN <<[name |-> job.name,
                     url |-> job.url,
                     buildNumber |-> build.number,
                     buildUrl |-> build.url,
                     timestamp |-> ToISOString(build.timestamp),
                     duration |-> build.duration,
                     result |-> build.result]>> \o rest
             ELSE rest

\* The loop over response.data.jobs; a job without a builds list is skipped.
RECURSIVE CollectFailed(_, _)
CollectFailed(jobs, cutoffTime) ==
  IF jobs = << >> THEN << >>
  ELSE LET job == Head(jobs)
           mine == IF job.builds = None THEN << >>
                   ELSE FailedBuildsOf(job, job.builds[1], cutoffTime)
       IN  mine \o CollectFailed(Tail(jobs), cutoffTime)

\* Faulty variant: the comparator's operands are swapped (oldest first).
RECURSIVE InsertByTimeAscending(_, _)
InsertByTimeAscending(sorted, x) ==
  IF sorted = << >> THEN <<x>>
  ELSE IF DateGetTime(Head(sorted).timestamp) - DateGetTime(x.timestamp) > 0
    THEN <<x>> \o sorted
    ELSE <<Head(sorted)>> \o InsertByTimeAscending(Tail(sorted), x)

\* failedJobs.sort((a, b) => time(b) - time(a)): Array.prototype.sort is
\* stable, so an entry goes behind every entry that is not older than it.
RECURSIVE InsertByTime(_, _)
InsertByTime(sorted, x) ==
  IF sorted = << >> THEN <<x>>
  ELSE IF DateGetTime(x.timestamp) - DateGetTime(Head(sorted).timestamp) > 0
    THEN <<x>> \o sorted
    ELSE <<Head(sorted)>> \o InsertByTime(Tail(sorted), x)

RECURSIVE SortByTimeDesc(_, _)
SortByTimeDesc(sorted, todo) ==
  IF todo = << >> THEN sorted
  ELSE SortByTimeDesc(InsertByTime(sorted, Head(todo)), Tail(todo))

GetFailedJobs(hoursAgo, clock, o) ==
  LET cutoffTime == clock - hoursAgo * 60 * 60 * 1000
  IN  IF o.kind = "ok"
        THEN Ok(SortByTimeDesc(<< >>, CollectFailed(o.data.jobs, cutoffTime)))
        ELSE CatchAll("Failed to get failed jobs: ", o, 30000)

GetRecentFailuresSummary(hoursAgo, clock, o) ==
  LET failures == GetFailedJobs(hoursAgo, clock, o)
  IN  IF failures.ok
        THEN Ok([totalFailures |-> Len(failures.value),
                 timeWindow |-> <<"Last ", ToString(hoursAgo), " hours">>,
                 failures |-> [i \in 1..Len(failures.value) |->
                                 [job |-> failures.value[i].name,
                                  build |-> failures.value[i].buildNumber,
                                  time |-> failures.value[i].timestamp,
                                  result |-> failures.value[i].result]]])
        ELSE failures

\* x || 0 on an optional number.
OrZero(opt) == IF opt = None THEN 0 ELSE opt[1]

MaxFailedTests == 20

MaxErrorChars == 500

\* Faulty variant: the cap is tested with <=, so a 21st case is kept.
RECURSIVE AddFailedCasesOneMore(_, _)
AddFailedCasesOneMore(failedTests, cases) ==
  IF cases = << >> THEN failedTests
  ELSE LET testCase == Head(cases)
           next ==
             IF (testCase.status = "FAILED" \/ testCase.status = "REGRESSION")
                /\ Len(failedTests) <= MaxFailedTests
               THEN Append(failedTests,
                      [name |-> testCase.name,
                       className |-> testCase.className,
                       errorMessage |->
                         IF testCase.errorDetails = None THEN None
                         ELSE Some([chars |->
                                Min(testCase.errorDetails[1].chars, MaxErrorChars)])])
               ELSE failedTests
       IN  AddFailedCasesOneMore(next, Tail(cases))

\* The failed cases of one suite appended to failedTests, at most 20 kept.
\* An error text is modelled by its length: [chars |-> n].
RECURSIVE AddFailedCases(_, _)
AddFailedCases(failedTests, cases) ==
  IF cases = << >> THEN failedTests
  ELSE LET testCase == Head(cases)
           next ==
             IF (testCase.status = "FAILED" \/ testCase.status = "REGRESSION")
                /\ Len(failedTests) < MaxFailedTests
               THEN Append(failedTests,
                      [name |-> testCase.name,
                       className |-> testCase.className,
                       errorMessage |->
                         IF testCase.errorDetails = None THEN None
                         ELSE Some([chars |->
                                Min(testCase.errorDetails[1].chars, MaxErrorChars)])])
               ELSE failedTests
       IN  AddFailedCases(next, Tail(cases))

RECURSIVE AddFailedSuites(_, _)
AddFailedSuites(failedTests, suites) ==
  IF suites = << >> THEN failedTests
  ELSE AddFailedSuites(
         AddFailedCases(failedTests,
           IF Head(suites).cases = None THEN << >> ELSE Head(suites).cases[1]),
         Tail(suites))

GetTestResults(jobName, buildNumber, o) ==
  IF o.kind = "ok"
    THEN Ok([totalCount |-> OrZero(o.data.totalCount),
             passCount |-> OrZero(o.data.passCount),
             failCount |-> OrZero(o.data.failCount),
             skipCount |-> OrZero(o.data.skipCount),
             duration |-> OrZero(o.data.duration),
             failedTests |-> IF o.data.suites = None THEN << >>
                             ELSE AddFailedSuites(<< >>, o.data.suites[1])])
  ELSE IF ErrStatus(o) = 404
    THEN Throw(<<"No test results found for ">> \o jobName
               \o <<" #", ToString(buildNumber), ". The build may not have run tests.">>)
  ELSE CatchAll("Failed to get test results: ", o, 15000)

\* stages.find(s => s.status === "FAILED" || s.status === "ABORTED")
\* Faulty variant: the last failed stage wins.
RECURSIVE FindLastFailedStage(_)
FindLastFailedStage(stages) ==
  IF stages = << >> THEN None
  ELSE IF FindLastFailedStage(Tail(stages)) # None
    THEN FindLastFailedStage(Tail(stages))
  ELSE IF Head(stages).status = "FAILED" \/ Head(stages).status = "ABORTED"
    THEN Some(Head(stages))
    ELSE None

RECURSIVE FindFailedStage(_)
FindFailedStage(stages) ==
  IF stages = << >> THEN None
  ELSE IF Head(stages).status = "FAILED" \/ Head(stages).status = "ABORTED"
    THEN Some(Head(stages))
    ELSE FindFailedStage(Tail(stages))

GetPipelineStages(jobName, buildNumber, o) ==
  IF o.kind = "ok"
    THEN LET raw == IF o.data.stages = None THEN << >> ELSE o.data.stages[1]
             stages == [i \in 1..Len(raw) |->
                          [name |-> raw[i].name,
                           status |-> raw[i].status,
                           durationMillis |-> raw[i].durationMillis,
                           startTimeMillis |-> raw[i].startTimeMillis]]
             failedStage == FindFailedStage(stages)
         IN  Ok([stages |-> stages,
                 totalDuration |-> OrZero(o.data.durationMillis),
                 failedStage |-> IF failedStage = None THEN None
                                 ELSE Some(failedStage[1].name)])
  ELSE IF ErrStatus(o) = 404
    THEN Throw(<<"No pipeline info found for ">> \o jobName
               \o <<" #", ToString(buildNumber), ". This may not be a Pipeline job.">>)
  ELSE CatchAll("Failed to get pipeline stages: ", o, 15000)

GetBuildQueueStatus(o) ==
  IF o.kind = "ok"
    THEN LET items == [i \in 1..Len(o.data.items) |->
                         [id |-> o.data.items[i].id,
                          jobName |-> o.data.items[i].task.name,
                          waiting |-> o.data.items[i].why,
                          inQueueSince |-> ToISOString(o.data.items[i].inQueueSince),
                          stuck |-> o.data.items[i].stuck]]
         IN  Ok([queueLength |-> Len(items), items |-> items])
    ELSE CatchAll("Failed to get build queue: ", o, 10000)

\* Faulty variant: the temporarily-offline flag is looked at first.
NodeStatusOfFlagFirst(node) ==
  IF node.temporarilyOffline THEN "temporarily_offline"
  ELSE IF node.offline THEN "offline"
  ELSE "online"

NodeStatusOf(node) ==
  IF node.offline
    THEN IF node.temporarilyOffline THEN "temporarily_offline" ELSE "offline"
    ELSE "online"

GetNodeStatus(o) ==
  IF o.kind = "ok"
    THEN LET nodes == [i \in 1..Len(o.data.computer) |->
                         [name |-> o.data.computer[i].displayName,
                          status |-> NodeStatusOf(o.data.computer[i]),
                          executors |-> o.data.computer[i].numExecutors,
                          idle |-> o.data.computer[i].idle,
                          offlineReason |-> o.data.computer[i].offlineCauseReason]]
         IN  Ok([totalNodes |-> Len(nodes),
                 onlineNodes |->
                   Cardinality({i \in DOMAIN nodes : nodes[i].status = "online"}),
                 offlineNodes |->
                   Cardinality({i \in DOMAIN nodes : nodes[i].status # "online"}),
                 nodes |-> nodes])
    ELSE CatchAll("Failed to get node status: ", o, 10000)

(***************************************************************************)
(* searchJobs: the glob pattern is rewritten into the source of a regular  *)
(* expression, one token per character, and handed to new RegExp(.., "i"). *)
(* The model covers the regular-expression syntax the rewritten patterns   *)
(* of its alphabet can contain: literal characters, `.`, the quantifier    *)
(* `*`, and an opening parenthesis, which never finds its closing one.     *)
(***************************************************************************)
\* str.replace(/c/g, by): every occurrence of the character c.
RECURSIVE ReplaceAll(_, _, _)
ReplaceAll(s, c, by) ==
  IF s = << >> THEN << >>
  ELSE (IF Head(s) = c THEN by ELSE <<Head(s)>>) \o ReplaceAll(Tail(s), c, by)

\* pattern.replace(/\*/g, ".*").replace(/\?/g, ".")
GlobToRegexSource(pattern) ==
  ReplaceAll(ReplaceAll(pattern, "*", <<".", "*">>), "?", <<".">>)

\* new RegExp(source) throws a SyntaxError on an unterminated group and on a
\* quantifier with nothing to repeat.
RegexSyntaxOk(source) ==
  /\ "(" \notin Range(source)
  /\ \A i \in DOMAIN source :
       source[i] = "*" => i > 1 /\ source[i - 1] # "*"

\* Canonicalisation under the "i" flag.
FoldCase(c) ==
  CASE c = "A" -> "a"
    [] c = "B" -> "b"
    [] c = "C" -> "c"
    [] OTHER -> c

RegexAtomMatches(atom, c) == atom = "." \/ FoldCase(atom) = FoldCase(c)

\* Does source[i..] match str[j..] up to the end of str (the `$` anchor)?
RECURSIVE RegexMatchFrom(_, _, _, _)
RegexMatchFrom(source, i, str, j) ==
  IF i > Len(source) THEN j > Len(str)
  ELSE IF i < Len(source) /\ source[i + 1] = "*"
    THEN \/ RegexMatchFrom(source, i + 2, str, j)
         \/ /\ j <= Len(str)
            /\ RegexAtomMatches(source[i], str[j])
            /\ RegexMatchFrom(source, i, str, j + 1)
    ELSE /\ j <= Len(str)
         /\ RegexAtomMatches(source[i], str[j])
         /\ RegexMatchFrom(source, i + 1, str, j + 1)

\* new RegExp("^" + source + "$", "i").test(str)
AnchoredRegexTest(source, str) == RegexMatchFrom(source, 1, str, 1)

\* allJobs.filter((job) => regex.test(job.name))
FilterJobs(jobs, source) ==
  LET Keep(job) == AnchoredRegexTest(source, job.name)
  IN  SelectSeq(jobs, Keep)

SearchJobs(pattern, o) ==
  LET allJobs == ListJobsSummary(o)
      source == GlobToRegexSource(pattern)
  IN  IF ~allJobs.ok
        THEN Throw(<<"Failed to search jobs: ">> \o allJobs.message)
      ELSE IF ~RegexSyntaxOk(source)
        THEN Throw(<<"Failed to search jobs: ", "Invalid regular expression: /^">>
                   \o source \o <<"$/i: Unterminated group">>)
      ELSE Ok(FilterJobs(allJobs.value, source))

(***************************************************************************)
(* compareBuilds: Promise.all over two getBuildDetails calls.  It rejects  *)
(* with the first rejection and resolves once both have resolved.          *)
(***************************************************************************)
CompareBuildsRejected(reason) ==
  Throw(<<"Failed to compare builds: ">> \o reason.message)

\* Faulty variant: a first build of duration 0 counts as a change of 100%.
PercentTenthsZeroAsHundred(durationDiff, duration1) ==
  IF duration1 > 0
    THEN (2000 * durationDiff + duration1) \div (2 * duration1)
    ELSE 1000

\* Math.round(durationDiffPercent * 10), the percentage in tenths:
\* Math.round rounds a half towards +infinity.
PercentTenths(durationDiff, duration1) ==
  IF duration1 > 0
    THEN (2000 * durationDiff + duration1) \div (2 * duration1)
    ELSE 0

CompareBuildsResolved(build1, build2) ==
  LET durationDiff == build2.duration - build1.duration
  IN  Ok([build1 |-> [number |-> build1.number,
                      result |-> build1.result,
                      timestamp |-> ToISOString(build1.timestamp),
                      duration |-> build1.duration],
          build2 |-> [number |-> build2.number,
                      result |-> build2.result,
                      timestamp |-> ToISOString(build2.timestamp),
                      duration |-> build2.duration],
          changes |-> [resultChanged |-> build1.result # build2.result,
                       durationDiff |-> durationDiff,
                       durationDiffPercentTenths |->
                         PercentTenths(durationDiff, build1.duration)]])

(***************************************************************************)
(* index.ts: the log processing done by the console tools.  A line is a    *)
(* string, so a token sequence; an output text is its sequence of lines.   *)
(***************************************************************************)
maxLines == 3000

DefaultContextLines == 5

DefaultMaxMatches == 50

\* Faulty variant: a log of exactly maxLines lines is truncated too.
ConsoleOutputAtCeiling(lines, tailLines) ==
  IF tailLines # None /\ tailLines[1] # 0 /\ tailLines[1] > 0
    THEN LET n == tailLines[1]
             tailOutput == SliceFrom(lines, -n)
             skipped == Len(lines) - n
         IN  IF skipped > 0
               THEN <<<<"[Showing last ", ToString(n), " of ", ToString(Len(lines)),
                        " lines (", ToString(skipped), " lines skipped)]">>,
                      << >>>> \o tailOutput
               ELSE tailOutput
    ELSE IF Len(lines) >= maxLines
      THEN LET firstHalf == SliceTo(lines, maxLines \div 2)
               lastHalf == SliceFrom(lines, -(maxLines \div 2))
           IN  firstHalf
                 \o <<<< >>,
                      <<"... [", ToString(Len(lines) - maxLines), " lines truncated] ...">>,
                      << >>>>
                 \o lastHalf
      ELSE lines

\* Faulty variant: the header is written also when nothing was skipped.
ConsoleOutputHeaderAlways(lines, tailLines) ==
  IF tailLines # None /\ tailLines[1] # 0 /\ tailLines[1] > 0
    THEN LET n == tailLines[1]
             tailOutput == SliceFrom(lines, -n)
             skipped == Len(lines) - n
         IN  IF skipped >= 0
               THEN <<<<"[Showing last ", ToString(n), " of ", ToString(Len(lines)),
                        " lines (", ToString(skipped), " lines skipped)]">>,
                      << >>>> \o tailOutput
               ELSE tailOutput
    ELSE IF Len(lines) > maxLines
      THEN LET firstHalf == SliceTo(lines, maxLines \div 2)
               lastHalf == SliceFrom(lines, -(maxLines \div 2))
           IN  firstHalf
                 \o <<<< >>,
                      <<"... [", ToString(Len(lines) - maxLines), " lines truncated] ...">>,
                      << >>>>
                 \o lastHalf
      ELSE lines

\* case "jenkins_get_build_console", after the fetch: tailLines is optional.
ConsoleOutput(lines, tailLines) ==
  IF tailLines # None /\ tailLines[1] # 0 /\ tailLines[1] > 0
    THEN LET n == tailLines[1]
             tailOutput == SliceFrom(lines, -n)
             skipped == Len(lines) - n
         IN  IF skipped > 0
               THEN <<<<"[Showing last ", ToString(n), " of ", ToString(Len(lines)),
                        " lines (", ToString(skipped), " lines skipped)]">>,
                      << >>>> \o tailOutput
               ELSE tailOutput
    ELSE IF Len(lines) > maxLines
      THEN LET firstHalf == SliceTo(lines, maxLines \div 2)
               lastHalf == SliceFrom(lines, -(maxLines \div 2))
           IN  firstHalf
                 \o <<<< >>,
                      <<"... [", ToString(Len(lines) - maxLines), " lines truncated] ...">>,
                      << >>>>
                 \o lastHalf
      ELSE lines

\* new RegExp(pattern, "i") of the search tool.  The engine is the runtime's;
\* the model knows the patterns of SearchPatterns: "error" is a literal and
\* "(" does not compile.
SearchRegexCompiles(pattern) == pattern # <<"(">>

\* regex.test(line)
SearchRegexTest(pattern, line) ==
  pattern = <<"error">> /\ line \in {<<"ERROR: build failed">>, <<"error: exit 1">>}

\* The context block of a match at line i: `${prefix}${j + 1}: ${lines[j]}`.
ContextBlock(lines, i, contextLines) ==
  LET startLine == Max(1, i - contextLines)
      endLine == Min(Len(lines), i + contextLines)
  IN  [k \in 1..(endLine - startLine + 1) |->
         LET j == startLine + k - 1
         IN  <<IF j = i THEN ">>> " ELSE "    ", ToString(j), ": ">> \o lines[j]]

ContextRange(lines, i, contextLines) ==
  Max(1, i - contextLines)..Min(Len(lines), i + contextLines)

\* Faulty variant: the loop goes on while matches.length <= maxMatches.
RECURSIVE SearchLoopInclusive(_, _, _, _, _, _, _)
SearchLoopInclusive(lines, pattern, contextLines, maxMatches, i, matches, usedLineRanges) ==
  IF ~(i <= Len(lines) /\ Len(matches) <= maxMatches) THEN matches
  ELSE IF SearchRegexTest(pattern, lines[i]) /\ i \notin usedLineRanges
    THEN SearchLoopInclusive(lines, pattern, contextLines, maxMatches, i + 1,
           Append(matches, [lineNumber |-> i,
                            matchedLine |-> lines[i],
                            context |-> ContextBlock(lines, i, contextLines)]),
           usedLineRanges \cup ContextRange(lines, i, contextLines))
    ELSE SearchLoopInclusive(lines, pattern, contextLines, maxMatches, i + 1,
           matches, usedLineRanges)

\* Faulty variant: a matching line is reported even when an earlier block
\* holds it.
RECURSIVE SearchLoopWithoutSkip(_, _, _, _, _, _, _)
SearchLoopWithoutSkip(lines, pattern, contextLines, maxMatches, i, matches, usedLineRanges) ==
  IF ~(i <= Len(lines) /\ Len(matches) < maxMatches) THEN matches
  ELSE IF SearchRegexTest(pattern, lines[i])
    THEN SearchLoopWithoutSkip(lines, pattern, contextLines, maxMatches, i + 1,
           Append(matches, [lineNumber |-> i,
                            matchedLine |-> lines[i],
                            context |-> ContextBlock(lines, i, contextLines)]),
           usedLineRanges \cup ContextRange(lines, i, contextLines))
    ELSE SearchLoopWithoutSkip(lines, pattern, contextLines, maxMatches, i + 1,
           matches, usedLineRanges)

\* The scanning loop from line i on, with the matches and usedLineRanges so far.
RECURSIVE SearchLoop(_, _, _, _, _, _, _)
SearchLoop(lines, pattern, contextLines, maxMatches, i, matches, usedLineRanges) ==
  IF ~(i <= Len(lines) /\ Len(matches) < maxMatches) THEN matches
  ELSE IF SearchRegexTest(pattern, lines[i]) /\ i \notin usedLineRanges
    THEN SearchLoop(lines, pattern, contextLines, maxMatches, i + 1,
           Append(matches, [lineNumber |-> i,
                            matchedLine |-> lines[i],
                            context |-> ContextBlock(lines, i, contextLines)]),
           usedLineRanges \cup ContextRange(lines, i, contextLines))
    ELSE SearchLoop(lines, pattern, contextLines, maxMatches, i + 1,
           matches, usedLineRanges)

\* case "jenkins_search_build_console", after the fetch.
SearchConsole(lines, pattern, contextLines, maxMatches) ==
  IF ~SearchRegexCompiles(pattern)
    THEN Throw(<<"Invalid regex pattern: ">> \o pattern)
    ELSE LET matches == SearchLoop(lines, pattern, contextLines, maxMatches,
                                   1, << >>, {})
         IN  Ok([pattern |-> pattern,
                 totalMatches |-> Len(matches),
                 totalLines |-> Len(lines),
                 truncated |-> Len(matches) >= maxMatches,
                 matches |-> [m \in 1..Len(matches) |->
                                [line |-> matches[m].lineNumber,
                                 context |-> matches[m].context]]])

(***************************************************************************)
(* index.ts: the CallTool handler.  A request is the tool name and the     *)
(* argument record, which may be absent (hasArgs = FALSE).  HandlerStart   *)
(* is the handler up to its first await: the Error it throws or the        *)
(* axios.get calls the client issues.  HandlerResume is the rest of it,    *)
(* from the outcome of the request.                                        *)
(***************************************************************************)
Get(path, timeout) == [method |-> "GET", path |-> path, timeout |-> timeout]

\* The request as axios.get issues it: every call of the client passes
\* headers: this.getAuthHeaders().
WithHeaders(get, headers) ==
  [method |-> get.method, path |-> get.path, timeout |-> get.timeout, headers |-> headers]

\* encodeURIComponent on the model's characters.
EncodeURIComponent(str) ==
  [i \in 1..Len(str) |->
     CASE str[i] = "/" -> "%2F"
       [] str[i] = " " -> "%20"
       [] OTHER -> str[i]]

JobPath(jobName) == <<"/job/">> \o EncodeURIComponent(jobName)

BuildPath(jobName, buildNumber) == JobPath(jobName) \o <<"/", ToString(buildNumber)>>

Arg(req, field) == IF field \in DOMAIN req.args THEN Some(req.args[field]) ELSE None

\* !value for an optional string argument.
Falsy(opt) == opt = None \/ opt[1] = << >>

\* (args as {...}).field on an absent argument record.
ReadOfUndefined(field) ==
  Throw(<<"Cannot read properties of undefined (reading '", field, "')">>)

\* const { field, ... } = args on an absent argument record.
DestructureOfUndefined(field) ==
  Throw(<<"Cannot destructure property '", field, "' of 'args' as it is undefined.">>)

\* The properties the handler reads off the argument record: one the record
\* lacks reads as undefined, which a template literal prints as "undefined".
Properties(req) ==
  req.args @@ [jobName |-> <<"undefined">>, pattern |-> <<"undefined">>,
               buildNumber |-> "undefined", buildNumber1 |-> "undefined",
               buildNumber2 |-> "undefined"]

\* Faulty variant: only jobName is validated.
NeedsJobOnly(req) ==
  IF ~req.hasArgs THEN DestructureOfUndefined("jobName")
  ELSE IF Falsy(Arg(req, "jobName"))
    THEN Throw(<<"jobName and buildNumber are required">>)
  ELSE Ok(TRUE)

NeedsJobAndBuild(req) ==
  IF ~req.hasArgs THEN DestructureOfUndefined("jobName")
  ELSE IF Falsy(Arg(req, "jobName")) \/ Arg(req, "buildNumber") = None
    THEN Throw(<<"jobName and buildNumber are required">>)
  ELSE Ok(TRUE)

NeedsJob(req) ==
  IF ~req.hasArgs THEN ReadOfUndefined("jobName")
  ELSE IF Falsy(Arg(req, "jobName")) THEN Throw(<<"jobName is required">>)
  ELSE Ok(TRUE)

HandlerStart(req) ==
  LET name == req.name
      args == Properties(req)
  IN  CASE name = "jenkins_health_check" -> Ok(<<Get(<<"/api/json">>, 5000)>>)
        [] name = "jenkins_list_jobs" ->
             Ok(<<Get(<<"/api/json?tree=jobs[name,url,color,lastBuild[number,url]]">>,
                      10000)>>)
        [] name = "jenkins_get_job_status" ->
             IF ~NeedsJob(req).ok THEN NeedsJob(req)
             ELSE Ok(<<Get(JobPath(args.jobName) \o <<"/api/json?tree=name,...">>, 10000)>>)
        [] name = "jenkins_get_build_details" ->
             IF ~NeedsJobAndBuild(req).ok THEN NeedsJobAndBuild(req)
             ELSE Ok(<<Get(BuildPath(args.jobName, args.buildNumber)
                           \o <<"/api/json">>, 10000)>>)
        [] name = "jenkins_get_latest_build" ->
             IF ~NeedsJob(req).ok THEN NeedsJob(req)
             ELSE Ok(<<Get(JobPath(args.jobName) \o <<"/api/json?tree=lastBuild[...]">>,
                           10000)>>)
        [] name = "jenkins_get_build_console" ->
             IF ~NeedsJobAndBuild(req).ok THEN NeedsJobAndBuild(req)
             ELSE Ok(<<Get(BuildPath(args.jobName, args.buildNumber)
                           \o <<"/consoleText">>, 30000)>>)
        [] name = "jenkins_search_build_console" ->
             IF ~req.hasArgs THEN DestructureOfUndefined("jobName")
             ELSE IF Falsy(Arg(req, "jobName")) \/ Arg(req, "buildNumber") = None
                     \/ Falsy(Arg(req, "pattern"))
               THEN Throw(<<"jobName, buildNumber, and pattern are required">>)
             ELSE Ok(<<Get(BuildPath(args.jobName, args.buildNumber)
                           \o <<"/consoleText">>, 30000)>>)
        [] name \in {"jenkins_get_failed_jobs", "jenkins_get_recent_failures_summary"} ->
             IF ~req.hasArgs THEN ReadOfUndefined("hoursAgo")
             ELSE Ok(<<Get(<<"/api/json?tree=jobs[name,url,color,builds[...]{0,10}]">>,
                           30000)>>)
        [] name = "jenkins_list_jobs_summary" ->
             Ok(<<Get(<<"/api/json?tree=jobs[name,url,color,lastBuild[number,timestamp]]">>,
                      10000)>>)
        [] name = "jenkins_get_test_results" ->
             IF ~NeedsJobAndBuild(req).ok THEN NeedsJobAndBuild(req)
             ELSE Ok(<<Get(BuildPath(args.jobName, args.buildNumber)
                           \o <<"/testReport/api/json">>, 15000)>>)
        [] name = "jenkins_get_pipeline_stages" ->
             IF ~NeedsJobAndBuild(req).ok THEN NeedsJobAndBuild(req)
             ELSE Ok(<<Get(BuildPath(args.jobName, args.buildNumber)
                           \o <<"/wfapi/describe">>, 15000)>>)
        [] name = "jenkins_get_queue_status" ->
             Ok(<<Get(<<"/queue/api/json">>, 10000)>>)
        [] name = "jenkins_search_jobs" ->
             IF ~req.hasArgs THEN ReadOfUndefined("pattern")
             ELSE IF Falsy(Arg(req, "pattern")) THEN Throw(<<"pattern is required">>)
             ELSE Ok(<<Get(<<"/api/json?tree=jobs[name,url,color,lastBuild[number,timestamp]]">>,
                           10000)>>)
        [] name = "jenkins_get_node_status" ->
             Ok(<<Get(<<"/computer/api/json?tree=computer[...]">>, 10000)>>)
        [] name = "jenkins_compare_builds" ->
             IF ~req.hasArgs THEN DestructureOfUndefined("jobName")
             ELSE IF Falsy(Arg(req, "jobName")) \/ Arg(req, "buildNumber1") = None
                     \/ Arg(req, "buildNumber2") = None
               THEN Throw(<<"jobName, buildNumber1, and buildNumber2 are required">>)
             ELSE Ok(<<Get(BuildPath(args.jobName, args.buildNumber1)
                           \o <<"/api/json">>, 10000),
                       Get(BuildPath(args.jobName, args.buildNumber2)
                           \o <<"/api/json">>, 10000)>>)
        [] OTHER -> Throw(<<"Unknown tool: ", name>>)

\* value ?? fallback, and the destructuring default, on an optional argument.
OrDefault(opt, fallback) == IF opt = None THEN fallback ELSE opt[1]

\* The handler of a single-request tool, resumed with the outcome o.
HandlerResume(req, clock, o) ==
  LET name == req.name
      args == Properties(req)
  IN  CASE name = "jenkins_health_check" -> HealthCheck(o)
        [] name = "jenkins_list_jobs" -> ListJobs(o)
        [] name = "jenkins_get_job_status" -> GetJobStatus(args.jobName, o)
        [] name = "jenkins_get_build_details" ->
             GetBuildDetails(args.jobName, args.buildNumber, o)
        [] name = "jenkins_get_latest_build" ->
             LET result == GetLatestBuild(args.jobName, o)
             IN  IF ~result.ok THEN result
                 ELSE IF result.value = None
                   THEN Ok([message |-> <<"No builds found for this job">>])
                 ELSE Ok(result.value[1])
        [] name = "jenkins_get_build_console" ->
             LET result == GetBuildConsoleOutput(args.jobName, args.buildNumber, o)
             IN  IF result.ok
                   THEN Ok(ConsoleOutput(result.value, Arg(req, "tailLines")))
                   ELSE result
        [] name = "jenkins_search_build_console" ->
             LET result == GetBuildConsoleOutput(args.jobName, args.buildNumber, o)
             IN  IF result.ok
                   THEN SearchConsole(result.value, args.pattern,
                          OrDefault(Arg(req, "contextLines"), DefaultContextLines),
                          OrDefault(Arg(req, "maxMatches"), DefaultMaxMatches))
                   ELSE result
        [] name = "jenkins_get_failed_jobs" ->
             GetFailedJobs(OrDefault(Arg(req, "hoursAgo"), 24), clock, o)
        [] name = "jenkins_get_recent_failures_summary" ->
             GetRecentFailuresSummary(OrDefault(Arg(req, "hoursAgo"), 24), clock, o)
        [] name = "jenkins_list_jobs_summary" -> ListJobsSummary(o)
        [] name = "jenkins_get_test_results" ->
             GetTestResults(args.jobName, args.buildNumber, o)
        [] name = "jenkins_get_pipeline_stages" ->
             GetPipelineStages(args.jobName, args.buildNumber, o)
        [] name = "jenkins_get_queue_status" -> GetBuildQueueStatus(o)
        [] name = "jenkins_search_jobs" -> SearchJobs(args.pattern, o)
        [] OTHER -> GetNodeStatus(o)

\* Faulty variant: no catch; a thrown Error leaves the handler.
ToolResponseWithoutCatch(result) ==
  IF result.ok
    THEN [returned |-> <<[isError |-> FALSE, text |-> result.value]>>, thrown |-> FALSE]
    ELSE [returned |-> << >>, thrown |-> TRUE]

\* The try/catch around the switch: a returned value becomes a response
\* without the error flag, a thrown Error the text `Error: <message>` with it.
ToolResponse(result) ==
  IF result.ok
    THEN [returned |-> <<[isError |-> FALSE, text |-> result.value]>>, thrown |-> FALSE]
    ELSE [returned |-> <<[isError |-> TRUE, text |-> <<"Error: ">> \o result.message]>>,
          thrown |-> FALSE]

(***************************************************************************)
(* The inputs the model enumerates: tool requests and upstream payloads.   *)
(***************************************************************************)
Clock == 4 * MsPerDay

NoArgs == [hasArgs |-> FALSE, args |-> << >>]

WithArgs(a) == [hasArgs |-> TRUE, args |-> a]

Named(name, argSets) == {[name |-> name, hasArgs |-> r.hasArgs, args |-> r.args] : r \in argSets}

Opt(field, values) == {<< >>} \cup {field :> v : v \in values}

JobNames == {<<"app">>, <<"lib">>}

NoArgTools ==
  {"jenkins_health_check", "jenkins_list_jobs", "jenkins_list_jobs_summary",
   "jenkins_get_queue_status", "jenkins_get_node_status"}

JobTools == {"jenkins_get_job_status", "jenkins_get_latest_build"}

BuildTools ==
  {"jenkins_get_build_details", "jenkins_get_test_results", "jenkins_get_pipeline_stages"}

JobArgs ==
  {NoArgs} \cup {WithArgs(j) : j \in Opt("jobName", JobNames \cup {<< >>})}

BuildArgs ==
  {NoArgs} \cup {WithArgs(j @@ b) : j \in Opt("jobName", JobNames \cup {<< >>}),
                                    b \in Opt("buildNumber", {0, 7})}

\* Requests the required-argument check of a console tool refuses or passes.
ConsoleBase == [jobName |-> <<"app">>, buildNumber |-> 7]

\* The argument records that lack exactly one field of a full record.
MissingOne(full) ==
  {WithArgs([f \in DOMAIN full \ {g} |-> full[f]]) : g \in DOMAIN full}

ConsoleArgs ==
  MissingOne(ConsoleBase) \cup
  {NoArgs, WithArgs(<< >>), WithArgs([jobName |-> << >>, buildNumber |-> 7]),
   WithArgs([jobName |-> <<"app">>])}
    \cup {WithArgs(ConsoleBase @@ t) : t \in Opt("tailLines", (-1)..(MaxLines + 1))}

SearchPatterns == {<<"error">>, <<"(">>}

SearchArgs ==
  MissingOne(ConsoleBase @@ [pattern |-> <<"error">>]) \cup
  {NoArgs, WithArgs(ConsoleBase), WithArgs(ConsoleBase @@ [pattern |-> << >>]),
   WithArgs([pattern |-> <<"error">>])}
    \cup {WithArgs(ConsoleBase @@ [pattern |-> p] @@ k @@ m) :
            p \in SearchPatterns,
            k \in Opt("contextLines", 0..MaxContext),
            m \in Opt("maxMatches", 0..MaxCap)}

FailedJobsArgs == {NoArgs} \cup {WithArgs(h) : h \in Opt("hoursAgo", {1, 24})}

PatternChars == {"a", "B", "*", "?", ".", "("}

NameChars == {"a", "b", "."}

\* The patterns of the spec's examples, over longer names.
ExamplePatterns == {<<"c", "f", "g", "-", "*">>, <<"a", "?", "c">>}

ExampleNames ==
  <<<<"c", "f", "g", "-", "d", "-", "1">>, <<"x", "c", "f", "g", "-", "d", "-", "1">>,
    <<"a", "b", "c">>, <<"a", "b", "b", "c">>, <<"A", "b", "C">>>>

GlobPatterns == SeqsUpTo(PatternChars, MaxPatLen) \cup ExamplePatterns

SearchJobsArgs == {NoArgs} \cup {WithArgs(p) : p \in Opt("pattern", GlobPatterns)}

CompareArgs ==
  MissingOne([jobName |-> <<"app">>, buildNumber1 |-> 1, buildNumber2 |-> 2]) \cup
  {NoArgs, WithArgs(<< >>), WithArgs([jobName |-> <<"app">>, buildNumber1 |-> 1]),
   WithArgs([jobName |-> << >>, buildNumber1 |-> 1, buildNumber2 |-> 2])}
    \cup {WithArgs([jobName |-> j, buildNumber1 |-> b1, buildNumber2 |-> b2]) :
            j \in JobNames, b1 \in {1, 2}, b2 \in {1, 2}}

\* inputSchema.required of each tool.
Required(name) ==
  CASE name \in {"jenkins_get_job_status", "jenkins_get_latest_build"} -> {"jobName"}
    [] name \in {"jenkins_get_build_details", "jenkins_get_build_console",
                 "jenkins_get_test_results", "jenkins_get_pipeline_stages"} ->
         {"jobName", "buildNumber"}
    [] name = "jenkins_search_build_console" -> {"jobName", "buildNumber", "pattern"}
    [] name = "jenkins_search_jobs" -> {"pattern"}
    [] name = "jenkins_compare_builds" -> {"jobName", "buildNumber1", "buildNumber2"}
    [] OTHER -> {}

Requests(name) ==
  CASE name \in NoArgTools -> Named(name, {NoArgs, WithArgs(<< >>)})
    [] name \in JobTools -> Named(name, JobArgs)
    [] name \in BuildTools -> Named(name, BuildArgs)
    [] name = "jenkins_get_build_console" -> Named(name, ConsoleArgs)
    [] name = "jenkins_search_build_console" -> Named(name, SearchArgs)
    [] name \in {"jenkins_get_failed_jobs", "jenkins_get_recent_failures_summary"} ->
         Named(name, FailedJobsArgs)
    [] name = "jenkins_search_jobs" -> Named(name, SearchJobsArgs)
    [] name = "jenkins_compare_builds" -> Named(name, CompareArgs)
    [] OTHER -> Named(name, {NoArgs, WithArgs(<< >>)})

\* Console texts.
ConsoleLineTexts == {<<"ok">>, <<"ERROR: build failed">>}

SmallLogs == NonEmptySeqsUpTo(ConsoleLineTexts, MaxLines)

NumberedLog(len) == [i \in 1..len |-> <<ToString(i)>>]

BigLogs == {NumberedLog(len) : len \in {maxLines, maxLines + 1, maxLines + BigExtra}}

\* Builds and job batches.
Results == {"FAILURE", "UNSTABLE", "SUCCESS", Null}

BuildTimes == {Clock - 24 * MsPerHour - 1, Clock - 24 * MsPerHour, Clock - MsPerHour}

BuildSamples ==
  {[number |-> 1, url |-> <<"b">>, result |-> r, timestamp |-> Clock - MsPerHour,
    duration |-> d] : r \in {"SUCCESS", "FAILURE", Null}, d \in {0, 100, 150}}

\* The builds of a batch, numbered in upstream order, split over two jobs
\* around a job that has no builds list.
BuildLists ==
  UNION {{[i \in 1..k |-> [number |-> i, url |-> <<"b", ToString(i)>>,
                           result |-> f[i][1], timestamp |-> f[i][2],
                           duration |-> 100]] :
            f \in [1..k -> Results \X BuildTimes]} : k \in 0..MaxBuilds}

JobWithBuilds(name, builds) ==
  [name |-> name, url |-> <<"/job/">> \o name, color |-> <<"red">>, builds |-> builds]

FailedJobBatches ==
  UNION {{<<JobWithBuilds(<<"app">>, Some(SubSeq(b, 1, k))),
     JobWithBuilds(<<"idle">>, None),
     JobWithBuilds(<<"lib">>, Some(SubSeq(b, k + 1, Len(b))))>> :
     k \in 0..Len(b)} : b \in BuildLists} \cup {<< >>}

\* Job listings.
Job(name, color, lastBuild) ==
  [name |-> name, url |-> <<"/job/">> \o name, color |-> color, lastBuild |-> lastBuild]

LastBuilds == {None, Some([number |-> 5, timestamp |-> 1000])}

Colors == {<<"blue">>, <<"red", "_anime">>, << >>}

\* Color tokens: the known base colors, the in-progress marker and a color
\* the lookup table does not know, joined in every way.
ColorTokens ==
  {"blue", "red", "yellow", "aborted", "notbuilt", "disabled", "grey", "_anime"}

AllColors == SeqsUpTo(ColorTokens, MaxColorTokens)

ColorListings == {<<Job(<<"app">>, c, None)>> : c \in AllColors}

JobListings ==
  {<< >>} \cup {<<Job(<<"app">>, c, b)>> : c \in Colors, b \in LastBuilds}
    \cup {<<Job(<<"app">>, <<"blue">>, None), Job(<<"lib">>, c, b)>> :
            c \in Colors, b \in LastBuilds}

RECURSIVE SetToSeq(_)
SetToSeq(S) ==
  IF S = {} THEN << >>
  ELSE LET x == CHOOSE y \in S : TRUE IN <<x>> \o SetToSeq(S \ {x})

Reverse(s) == [i \in 1..Len(s) |-> s[Len(s) + 1 - i]]

\* The names of k characters, numbered in base Len(chars).
NamesOfLength(chars, k) ==
  [n \in 1..(Len(chars) ^ k) |->
     [i \in 1..k |-> chars[(((n - 1) \div (Len(chars) ^ (k - i))) % Len(chars)) + 1]]]

RECURSIVE NamesUpTo(_, _)
NamesUpTo(chars, k) ==
  IF k = 0 THEN << >> ELSE NamesUpTo(chars, k - 1) \o NamesOfLength(chars, k)

\* Every name of up to MaxPatLen characters, then the examples' names.
NamedJobs ==
  LET names == NamesUpTo(SetToSeq(NameChars), MaxPatLen) \o ExampleNames
  IN  [i \in 1..Len(names) |-> Job(names[i], <<"blue">>, None)]

SearchListings == {NamedJobs, Reverse(NamedJobs)}

\* Test reports, pipeline descriptions, queue and agents.
TestCases ==
  {[name |-> <<"t">>, className |-> <<"C">>, status |-> st, errorDetails |-> e] :
     st \in {"PASSED", "FAILED", "REGRESSION"},
     e \in {None, Some([chars |-> 3]), Some([chars |-> 600])}}

TestReports ==
  {[totalCount |-> None, passCount |-> None, failCount |-> None, skipCount |-> None,
    duration |-> None, suites |-> None]}
    \cup {[totalCount |-> Some(2), passCount |-> Some(1), failCount |-> Some(1),
           skipCount |-> Some(0), duration |-> Some(3),
           suites |-> Some(<<[cases |-> None], [cases |-> Some(<<c>>)]>>)] :
            c \in TestCases}

\* Long reports: n numbered cases, three in five of them failed, with error
\* texts around the 500-character limit, split over suites at k.
NumberedCase(i) ==
  [name |-> <<"t", ToString(i)>>,
   className |-> <<"C">>,
   status |-> CASE i % 5 = 0 -> "PASSED"
                [] i % 5 = 2 -> "REGRESSION"
                [] i % 5 = 4 -> "SKIPPED"
                [] OTHER -> "FAILED",
   errorDetails |-> IF i % 5 \in {0, 4} THEN None ELSE Some([chars |-> 490 + i])]

LongReports ==
  {[totalCount |-> Some(n), passCount |-> Some(0), failCount |-> Some(0),
    skipCount |-> Some(0), duration |-> Some(3),
    suites |-> Some(<<[cases |-> Some([i \in 1..k |-> NumberedCase(i)])],
                      [cases |-> None],
                      [cases |-> Some([i \in 1..(n - k) |-> NumberedCase(k + i)])]>>)] :
     n \in {31, 32, 33, 33 + ExtraCases}, k \in {0, 10, 31}}

StageStatuses == {"SUCCESS", "UNSTABLE", "FAILED", "ABORTED"}

Stage(name, status) ==
  [name |-> name, status |-> status, durationMillis |-> 10, startTimeMillis |-> Some(1)]

PipelineDescriptions ==
  {[stages |-> None, durationMillis |-> None]}
    \cup UNION {{[stages |-> Some([i \in 1..k |-> Stage(<<"stage", ToString(i)>>, f[i])]),
                   durationMillis |-> Some(10 * k)] :
                    f \in [1..k -> StageStatuses]} : k \in 0..MaxStages}

QueuePayloads ==
  {[items |-> << >>]}
    \cup {[items |-> <<[id |-> 1, task |-> [name |-> <<"app">>], why |-> <<"waiting">>,
                       inQueueSince |-> 1000, stuck |-> st]>>] : st \in BOOLEAN}

Node(offline, temporarilyOffline) ==
  [displayName |-> <<"agent">>, offline |-> offline,
   temporarilyOffline |-> temporarilyOffline, numExecutors |-> 2, idle |-> TRUE,
   offlineCauseReason |-> << >>]

NodePayloads ==
  {[computer |-> << >>]}
    \cup {[computer |-> <<Node(o1, t1), Node(o2, FALSE)>>] :
            o1 \in BOOLEAN, t1 \in BOOLEAN, o2 \in BOOLEAN}
    \cup {[computer |-> l] :
            l \in SeqsUpTo({Node(o1, t1) : o1 \in BOOLEAN, t1 \in BOOLEAN}, MaxNodes)}

\* The payloads a 2xx answer to the request's axios.get can carry.
Payloads(req) ==
  LET name == req.name
  IN  CASE name = "jenkins_health_check" -> {Null}
        [] name = "jenkins_list_jobs" -> {[jobs |-> l] : l \in JobListings}
        [] name = "jenkins_get_job_status" ->
             {Job(req.args.jobName, c, None) : c \in Colors}
        [] name \in {"jenkins_get_build_details", "jenkins_compare_builds"} -> BuildSamples
        [] name = "jenkins_get_latest_build" ->
             {[lastBuild |-> None]} \cup {[lastBuild |-> Some(b)] : b \in BuildSamples}
        [] name = "jenkins_get_build_console" -> SmallLogs \cup {<<<< >>>>} \cup BigLogs
        [] name = "jenkins_search_build_console" -> SmallLogs
        [] name \in {"jenkins_get_failed_jobs", "jenkins_get_recent_failures_summary"} ->
             {[jobs |-> l] : l \in FailedJobBatches}
        [] name = "jenkins_list_jobs_summary" ->
             {[jobs |-> l] : l \in JobListings \cup ColorListings}
        [] name = "jenkins_get_test_results" -> TestReports \cup LongReports
        [] name = "jenkins_get_pipeline_stages" -> PipelineDescriptions
        [] name = "jenkins_get_queue_status" -> QueuePayloads
        [] name = "jenkins_search_jobs" -> {[jobs |-> l] : l \in SearchListings}
        [] OTHER -> NodePayloads

(***************************************************************************)
(* The state machine: one tool invocation, from the request to its         *)
(* response.  pc is the handler's position: "idle" before the request,     *)
(* "awaiting" at an await of the client's axios.get, "done" once the       *)
(* handler has returned.  sent are the requests issued, replies the        *)
(* outcomes received so far, responses what the handler returned, and      *)
(* escaped tells whether an exception left the handler.                    *)
(***************************************************************************)
\* The environments the server is started in: with and without each of the
\* three variables, and with two different tokens.
\* The answers axios resolves with (validateStatus accepts every 2xx):
\* healthCheck alone reads response.status, so for it a 204 is answered too.
Resolutions(req) ==
  {[HttpOk(d) EXCEPT !.status = status] :
     d \in Payloads(req),
     status \in IF req.name = "jenkins_health_check" THEN {200, 204} ELSE {200}}

Env(url, user, token) ==
  [JENKINS_URL |-> url, JENKINS_USERNAME |-> user, JENKINS_API_TOKEN |-> token]

Url == <<"h", "t", "t", "p", ":", "/", "/", "c", "i">>

Environments ==
  {Env(Some(Url), Some(<<"c", "i">>), Some(<<"s", "3">>)),
   Env(Some(Url), Some(<<"c", "i">>), Some(<<"t", "0">>)),
   Env(Some(Url), Some(<<"c", "i">>), None),
   Env(Some(Url), None, Some(<<"s", "3">>)),
   Env(Some(Url), None, None),
   Env(None, Some(<<"c", "i">>), Some(<<"s", "3">>)),
   Env(Some(<< >>), None, None),
   Env(Some(<<"/">>), Some(<<"c", "i">>), Some(<<"s", "3">>))}

Init ==
  /\ pc = "loading"
  /\ config \in {ConfigOf(e) : e \in Environments}
  /\ stderr = << >>
  /\ exitCode = None
  /\ request = [name |-> "", hasArgs |-> FALSE, args |-> << >>]
  /\ now = Clock
  /\ sent = << >>
  /\ replies = << >>
  /\ responses = << >>
  /\ escaped = FALSE

\* Faulty variant: the missing URL is reported but the process goes on.
ValidateConfigWithoutExit ==
  /\ pc = "loading"
  /\ stderr' =
       IF config.baseUrl = << >>
         THEN Append(stderr, <<"Error: JENKINS_URL environment variable is required">>)
       ELSE IF config.username = << >> \/ config.apiToken = << >>
         THEN Append(stderr, <<"Warning: JENKINS_USERNAME and JENKINS_API_TOKEN not set. Authentication may fail.">>)
       ELSE stderr
  /\ pc' = "loaded"
  /\ UNCHANGED <<request, now, sent, replies, responses, escaped, config, exitCode>>

\* index.ts at load: the configuration is validated.
ValidateConfig ==
  /\ pc = "loading"
  /\ IF config.baseUrl = << >>
       THEN /\ stderr' = Append(stderr, <<"Error: JENKINS_URL environment variable is required">>)
            /\ exitCode' = Some(1)
            /\ pc' = "exited"
       ELSE /\ stderr' =
                 IF config.username = << >> \/ config.apiToken = << >>
                   THEN Append(stderr, <<"Warning: JENKINS_USERNAME and JENKINS_API_TOKEN not set. Authentication may fail.">>)
                   ELSE stderr
            /\ exitCode' = exitCode
            /\ pc' = "loaded"
  /\ UNCHANGED <<request, now, sent, replies, responses, escaped, config>>

\* main(): the server connects its transport and starts serving.
Main ==
  /\ pc = "loaded"
  /\ stderr' = Append(stderr, <<"Jenkins MCP server running">>)
  /\ pc' = "idle"
  /\ UNCHANGED <<request, now, sent, replies, responses, escaped, config, exitCode>>

\* The handler returns (or throws) with this result.
Settle(result) ==
  /\ responses' = responses \o ToolResponse(result).returned
  /\ escaped' = ToolResponse(result).thrown
  /\ pc' = "done"

\* The request arrives and the handler runs up to its first await.
Invoke(req) ==
  /\ pc = "idle"
  /\ request' = req
  /\ IF req.name = "jenkins_health_check" /\ JenkinsClientOf(config).baseUrl = << >>
       THEN /\ sent' = << >>
            /\ Settle(HealthCheckUnconfigured)
     ELSE IF HandlerStart(req).ok
       THEN /\ sent' = [i \in DOMAIN HandlerStart(req).value |->
                         WithHeaders(HandlerStart(req).value[i],
                                     GetAuthHeaders(JenkinsClientOf(config)))]
            /\ pc' = "awaiting"
            /\ UNCHANGED <<responses, escaped>>
       ELSE /\ sent' = << >>
            /\ Settle(HandlerStart(req))
  /\ UNCHANGED <<now, replies, config, stderr, exitCode>>

CallHealthCheck ==
  /\ pc = "idle"
  /\ \E req \in Requests("jenkins_health_check") : Invoke(req)

CallListJobs ==
  /\ pc = "idle"
  /\ \E req \in Requests("jenkins_list_jobs") : Invoke(req)

CallGetJobStatus ==
  /\ pc = "idle"
  /\ \E req \in Requests("jenkins_get_job_status") : Invoke(req)

CallGetBuildDetails ==
  /\ pc = "idle"
  /\ \E req \in Requests("jenkins_get_build_details") : Invoke(req)

CallGetLatestBuild ==
  /\ pc = "idle"
  /\ \E req \in Requests("jenkins_get_latest_build") : Invoke(req)

CallGetBuildConsole ==
  /\ pc = "idle"
  /\ \E req \in Requests("jenkins_get_build_console") : Invoke(req)

CallSearchBuildConsole ==
  /\ pc = "idle"
  /\ \E req \in Requests("jenkins_search_build_console") : Invoke(req)

CallGetFailedJobs ==
  /\ pc = "idle"
  /\ \E req \in Requests("jenkins_get_failed_jobs") : Invoke(req)

CallGetRecentFailuresSummary ==
  /\ pc = "idle"
  /\ \E req \in Requests("jenkins_get_recent_failures_summary") : Invoke(req)

CallListJobsSummary ==
  /\ pc = "idle"
  /\ \E req \in Requests("jenkins_list_jobs_summary") : Invoke(req)

CallGetTestResults ==
  /\ pc = "idle"
  /\ \E req \in Requests("jenkins_get_test_results") : Invoke(req)

CallGetPipelineStages ==
  /\ pc = "idle"
  /\ \E req \in Requests("jenkins_get_pipeline_stages") : Invoke(req)

CallGetQueueStatus ==
  /\ pc = "idle"
  /\ \E req \in Requests("jenkins_get_queue_status") : Invoke(req)

CallSearchJobs ==
  /\ pc = "idle"
  /\ \E req \in Requests("jenkins_search_jobs") : Invoke(req)

CallGetNodeStatus ==
  /\ pc = "idle"
  /\ \E req \in Requests("jenkins_get_node_status") : Invoke(req)

CallCompareBuilds ==
  /\ pc = "idle"
  /\ \E req \in Requests("jenkins_compare_builds") : Invoke(req)

CallUnknownTool ==
  /\ pc = "idle"
  /\ \E req \in Requests("jenkins_trigger_build") : Invoke(req)

Pending == DOMAIN sent \ DOMAIN replies

\* Faulty variant: the comparison is computed as soon as one fetch resolves.
CompareOnFirstAnswer(i, o) ==
  LET args == Properties(request)
      number(k) == IF k = 1 THEN args.buildNumber1 ELSE args.buildNumber2
      mine == GetBuildDetails(args.jobName, number(i), o)
  IN  IF ~mine.ok THEN Settle(CompareBuildsRejected(mine))
      ELSE Settle(CompareBuildsResolved(mine.value, mine.value))

\* compareBuilds at the settling of its i-th getBuildDetails: Promise.all
\* rejects at the first rejection and resolves with the second resolution.
CompareOnAnswer(i, o) ==
  LET args == Properties(request)
      number(k) == IF k = 1 THEN args.buildNumber1 ELSE args.buildNumber2
      mine == GetBuildDetails(args.jobName, number(i), o)
      other == 3 - i
  IN  IF ~mine.ok THEN Settle(CompareBuildsRejected(mine))
      ELSE IF other \in DOMAIN replies
        THEN Settle(IF i = 1 THEN CompareBuildsResolved(mine.value, replies[other].data)
                    ELSE CompareBuildsResolved(replies[other].data, mine.value))
      ELSE UNCHANGED <<pc, responses, escaped>>

\* The upstream settles request i with outcome o and the handler goes on.
Answer(i, o) ==
  /\ pc = "awaiting"
  /\ i \in Pending
  /\ replies' = (i :> o) @@ replies
  /\ IF request.name = "jenkins_compare_builds"
       THEN CompareOnAnswer(i, AxiosResult(o, sent[i]))
       ELSE Settle(HandlerResume(request, now, AxiosResult(o, sent[i])))
  /\ UNCHANGED <<request, now, sent, config, stderr, exitCode>>

UpstreamResolves == \E i \in Pending : \E o \in Resolutions(request) : Answer(i, o)

UpstreamRejects == \E i \in Pending : \E o \in HttpFailures : Answer(i, o)

\* A request still in flight when the handler has returned settles unobserved.
LateAnswer ==
  /\ pc = "done"
  /\ \E i \in Pending : \E o \in HttpFailures \cup Resolutions(request) :
       replies' = (i :> o) @@ replies
  /\ UNCHANGED <<pc, request, now, sent, responses, escaped, config, stderr, exitCode>>

Next ==
  \/ ValidateConfig
  \/ Main
  \/ CallHealthCheck
  \/ CallListJobs
  \/ CallGetJobStatus
  \/ CallGetBuildDetails
  \/ CallGetLatestBuild
  \/ CallGetBuildConsole
  \/ CallSearchBuildConsole
  \/ CallGetFailedJobs
  \/ CallGetRecentFailuresSummary
  \/ CallListJobsSummary
  \/ CallGetTestResults
  \/ CallGetPipelineStages
  \/ CallGetQueueStatus
  \/ CallSearchJobs
  \/ CallGetNodeStatus
  \/ CallCompareBuilds
  \/ CallUnknownTool
  \/ UpstreamResolves
  \/ UpstreamRejects
  \/ LateAnswer

Spec == Init /\ [][Next]_vars

\* The module runs to the end of its top-level code and main() is called.
FairSpec == Spec /\ WF_vars(ValidateConfig) /\ WF_vars(Main)

(***************************************************************************)
(* Several invocations in flight at once.  The request handler is an async *)
(* function: the event loop runs an invocation from one await to the next, *)
(* so invocations interleave at their awaits and nowhere else.  In this    *)
(* specification pc, request, sent, replies, responses and escaped hold    *)
(* one value per invocation; the client and its configuration are shared.  *)
(***************************************************************************)
Invocations == 1..MaxInvocations

ConcurrentRequests ==
  UNION {Requests(name) : name \in {"jenkins_health_check", "jenkins_get_job_status",
                                    "jenkins_get_queue_status"}}

\* The server is serving: the module has loaded and main() has connected.
ConcurrentInit ==
  /\ config \in {ConfigOf(e) : e \in Environments}
  /\ config.baseUrl # << >>
  /\ stderr = (IF config.username = << >> \/ config.apiToken = << >>
                THEN <<<<"Warning: JENKINS_USERNAME and JENKINS_API_TOKEN not set. Authentication may fail.">>>>
                ELSE << >>) \o <<<<"Jenkins MCP server running">>>>
  /\ exitCode = None
  /\ now = Clock
  /\ pc = [s \in Invocations |-> "idle"]
  /\ request = [s \in Invocations |-> [name |-> "", hasArgs |-> FALSE, args |-> << >>]]
  /\ sent = [s \in Invocations |-> << >>]
  /\ replies = [s \in Invocations |-> << >>]
  /\ responses = [s \in Invocations |-> << >>]
  /\ escaped = [s \in Invocations |-> FALSE]

\* Invocation s arrives and its handler runs up to its first await: it
\* works on its own parameters and locals only.
ConcurrentInvoke(s) ==
  /\ pc[s] = "idle"
  /\ \E req \in ConcurrentRequests :
       LET early == req.name = "jenkins_health_check"
                      /\ JenkinsClientOf(config).baseUrl = << >>
           start == HandlerStart(req)
           suspends == ~early /\ start.ok
           result == ToolResponse(IF early THEN HealthCheckUnconfigured ELSE start)
       IN  /\ request' = [request EXCEPT ![s] = req]
           /\ sent' = [sent EXCEPT ![s] =
                         IF suspends
                           THEN [i \in DOMAIN start.value |->
                                   WithHeaders(start.value[i],
                                               GetAuthHeaders(JenkinsClientOf(config)))]
                           ELSE << >>]
           /\ pc' = [pc EXCEPT ![s] = IF suspends THEN "awaiting" ELSE "done"]
           /\ responses' = [responses EXCEPT ![s] =
                              IF suspends THEN @ ELSE @ \o result.returned]
           /\ escaped' = [escaped EXCEPT ![s] = IF suspends THEN @ ELSE result.thrown]
  /\ UNCHANGED <<now, replies, config, stderr, exitCode>>

\* Faulty variant: the responses are collected in one array shared by all
\* invocations.
ConcurrentAnswerSharedResponses(s) ==
  /\ pc[s] = "awaiting"
  /\ \E o \in HttpFailures \cup Resolutions(request[s]) :
       LET result == ToolResponse(HandlerResume(request[s], now,
                                                AxiosResult(o, sent[s][1])))
       IN  /\ replies' = [replies EXCEPT ![s] = 1 :> o]
           /\ responses' = [t \in Invocations |-> responses[t] \o result.returned]
           /\ escaped' = [escaped EXCEPT ![s] = result.thrown]
           /\ pc' = [pc EXCEPT ![s] = "done"]
  /\ UNCHANGED <<request, now, sent, config, stderr, exitCode>>

\* The upstream settles the request of invocation s and its handler goes on
\* to its return, again on its own locals only.
ConcurrentAnswer(s) ==
  /\ pc[s] = "awaiting"
  /\ \E o \in HttpFailures \cup Resolutions(request[s]) :
       LET result == ToolResponse(HandlerResume(request[s], now,
                                                AxiosResult(o, sent[s][1])))
       IN  /\ replies' = [replies EXCEPT ![s] = 1 :> o]
           /\ responses' = [responses EXCEPT ![s] = @ \o result.returned]
           /\ escaped' = [escaped EXCEPT ![s] = result.thrown]
           /\ pc' = [pc EXCEPT ![s] = "done"]
  /\ UNCHANGED <<request, now, sent, config, stderr, exitCode>>

ConcurrentNext ==
  \E s \in Invocations : ConcurrentInvoke(s) \/ ConcurrentAnswer(s)

ConcurrentSpec == ConcurrentInit /\ [][ConcurrentNext]_vars

(***************************************************************************)
(* Vocabulary of the properties.                                           *)
(***************************************************************************)
Done(name) == pc = "done" /\ request.name = name

\* The response of the finished invocation.
Response == responses[1]

\* The handler has returned after exactly the reply `o` to one of its requests.
SettledBy(o) == pc = "done" /\ \E i \in DOMAIN sent : DOMAIN replies = {i} /\ replies[i] = o

SettledByStatus(status) == SettledBy([kind |-> "status", status |-> status])

\* The finished invocation got a 2xx answer to its single request.
Fetched(name) ==
  Done(name) /\ DOMAIN replies = {1} /\ replies[1].kind = "ok" /\ Len(responses) = 1

Contains(text, part) ==
  \E k \in 0..(Len(text) - Len(part)) : SubSeq(text, k + 1, k + Len(part)) = part

\* The catch-all upstream error: the transport's own message is surfaced.
IsCatchAll(text) == "Request failed with status code " \in Range(text)

\* The index of the request that was answered.
Answered == CHOOSE i \in DOMAIN replies : TRUE

(***************************************************************************)
(* C1.  jenkins_search_build_console: the context blocks of the reported   *)
(* matches never overlap, that is, no line number is in the context of two *)
(* reported matches.  The code refutes it: a match is skipped only when    *)
(* its own line lies in an earlier block, so the block of a later match    *)
(* reaches back into the block before it.                                  *)
(***************************************************************************)
BlockLineNumbers(match) == {match.context[k][2] : k \in DOMAIN match.context}

C1_ContextBlocksDisjoint ==
  (Fetched("jenkins_search_build_console") /\ ~Response.isError) =>
    \A m1, m2 \in DOMAIN Response.text.matches :
      m1 # m2 =>
        BlockLineNumbers(Response.text.matches[m1])
          \cap BlockLineNumbers(Response.text.matches[m2]) = {}

(***************************************************************************)
(* C2.  jenkins_search_jobs returns exactly the jobs, in upstream order,   *)
(* whose whole name matches the pattern as a case-insensitive glob: `*` is *)
(* any run of characters, `?` exactly one, every other character itself.   *)
(* The code refutes it for a pattern that holds a regular-expression       *)
(* metacharacter (see C27): `.` matches any character and `(` makes the    *)
(* call fail.                                                              *)
(***************************************************************************)
\* The reference glob matcher: does pattern[i..] match str[j..] entirely?
RECURSIVE GlobMatchFrom(_, _, _, _)
GlobMatchFrom(pattern, i, str, j) ==
  IF i > Len(pattern) THEN j > Len(str)
  ELSE IF pattern[i] = "*"
    THEN \E k \in j..(Len(str) + 1) : GlobMatchFrom(pattern, i + 1, str, k)
  ELSE /\ j <= Len(str)
       /\ pattern[i] = "?" \/ FoldCase(pattern[i]) = FoldCase(str[j])
       /\ GlobMatchFrom(pattern, i + 1, str, j + 1)

GlobMatches(pattern, str) == GlobMatchFrom(pattern, 1, str, 1)

RECURSIVE GlobSelect(_, _)
GlobSelect(jobs, pattern) ==
  IF jobs = << >> THEN << >>
  ELSE (IF GlobMatches(pattern, Head(jobs).name) THEN <<Head(jobs).name>> ELSE << >>)
         \o GlobSelect(Tail(jobs), pattern)

NamesOf(jobs) == [i \in 1..Len(jobs) |-> jobs[i].name]

C2_SearchJobsIsGlob ==
  Fetched("jenkins_search_jobs") =>
    /\ ~Response.isError
    /\ NamesOf(Response.text) = GlobSelect(replies[1].data.jobs, request.args.pattern)

(***************************************************************************)
(* C3.  Every API-client operation surfaces an upstream 401 as the         *)
(* Unauthenticated error with the credentials hint, not as the catch-all   *)
(* upstream error.  The code refutes it: only getJobStatus,                *)
(* getBuildDetails, getLatestBuild and getBuildConsoleOutput test for 401. *)
(***************************************************************************)
ClientOperationTools ==
  {"jenkins_list_jobs", "jenkins_list_jobs_summary", "jenkins_get_failed_jobs",
   "jenkins_get_recent_failures_summary", "jenkins_get_job_status",
   "jenkins_get_build_details", "jenkins_get_latest_build", "jenkins_get_build_console",
   "jenkins_search_build_console", "jenkins_get_test_results",
   "jenkins_get_pipeline_stages", "jenkins_get_queue_status", "jenkins_get_node_status",
   "jenkins_search_jobs", "jenkins_compare_builds"}

C3_UnauthorizedIsUnauthenticated ==
  (SettledByStatus(401) /\ request.name \in ClientOperationTools) =>
    /\ Response.isError
    /\ Contains(Response.text, AuthFailedMessage)
    /\ ~IsCatchAll(Response.text)

(***************************************************************************)
(* C4.  Every job-scoped API-client operation surfaces an upstream 403 as  *)
(* the Forbidden error whose message names the job, not as the catch-all   *)
(* upstream error.  The code refutes it: getTestResults and                *)
(* getPipelineStages do not test for 403.                                  *)
(***************************************************************************)
JobScopedTools ==
  {"jenkins_get_job_status", "jenkins_get_build_details", "jenkins_get_latest_build",
   "jenkins_get_build_console", "jenkins_get_test_results", "jenkins_get_pipeline_stages",
   "jenkins_compare_builds"}

C4_ForbiddenNamesJob ==
  (SettledByStatus(403) /\ request.name \in JobScopedTools) =>
    /\ Response.isError
    /\ Contains(Response.text, <<"Access forbidden for job ">> \o request.args.jobName)
    /\ ~IsCatchAll(Response.text)

(***************************************************************************)
(* C5.  Every job- or build-scoped operation surfaces an upstream 404 as a *)
(* NotFound error whose message names the requested job and, for a         *)
(* build-scoped operation, the build number.  compareBuilds prefixes the   *)
(* NotFound message of the failed fetch with `Failed to compare builds: `. *)
(***************************************************************************)
NotFoundMarkers ==
  {"Job not found: ", " not found for job: ", "No test results found for ",
   "No pipeline info found for "}

BuildScopedTools ==
  {"jenkins_get_build_details", "jenkins_get_build_console",
   "jenkins_search_build_console", "jenkins_get_test_results",
   "jenkins_get_pipeline_stages", "jenkins_compare_builds"}

\* The build number of the request that was answered.
RequestedBuild ==
  IF request.name = "jenkins_compare_builds"
    THEN (IF Answered = 1 THEN request.args.buildNumber1 ELSE request.args.buildNumber2)
    ELSE request.args.buildNumber

NamesBuild(text, buildNumber) ==
  \E k \in 1..(Len(text) - 1) :
    text[k] \in {"Build #", " #"} /\ text[k + 1] = ToString(buildNumber)

C5_NotFoundNamesJobAndBuild ==
  (SettledByStatus(404) /\ request.name \in JobTools \cup BuildScopedTools) =>
    /\ Response.isError
    /\ Range(Response.text) \cap NotFoundMarkers # {}
    /\ ~IsCatchAll(Response.text)
    /\ Contains(Response.text, request.args.jobName)
    /\ request.name \in BuildScopedTools => NamesBuild(Response.text, RequestedBuild)

C5_Witness ==
  /\ SettledByStatus(404)
  /\ request.name = "jenkins_compare_builds"
  /\ Answered = 2
  /\ Response.isError
  /\ NamesBuild(Response.text, request.args.buildNumber2)

(***************************************************************************)
(* C6.  Every tool invocation ends with exactly one response and no        *)
(* exception leaves the handler: a failure (an unknown tool, a refused or  *)
(* absent argument record, a rejected upstream request) is returned as the *)
(* text `Error: <message>` with the error flag, anything else without it.  *)
(***************************************************************************)
\* The invocation failed: the handler threw before its first request, or
\* the client method threw on the outcome it was resumed with.
InvocationFailed ==
  \/ sent = << >> /\ request.name # "jenkins_health_check"
  \/ \E i \in DOMAIN replies :
       /\ replies[i].kind # "ok"
       /\ request.name # "jenkins_health_check"
  \/ /\ request.name = "jenkins_search_build_console"
     /\ request.args.pattern = <<"(">>
  \/ /\ request.name = "jenkins_search_jobs"
     /\ "(" \in Range(request.args.pattern)

C6_OneResponseNothingEscapes ==
  /\ ~escaped
  /\ pc # "done" => responses = << >>
  /\ pc = "done" =>
       /\ Len(responses) = 1
       /\ Response.isError <=> InvocationFailed
       /\ Response.isError => Head(Response.text) = "Error: " /\ Len(Response.text) > 1

C6_Witness ==
  /\ pc = "done"
  /\ request.name = "jenkins_trigger_build"
  /\ ~request.hasArgs
  /\ Response = [isError |-> TRUE, text |-> <<"Error: ", "Unknown tool: ", "jenkins_trigger_build">>]

(***************************************************************************)
(* C7.  getFailedJobs(hoursAgo) returns exactly the builds of the batch    *)
(* with timestamp >= now - hoursAgo * 3600000 and result FAILURE or        *)
(* UNSTABLE (a job without a builds list contributes nothing), sorted      *)
(* non-increasing by timestamp.                                            *)
(***************************************************************************)
EffectiveHours == IF "hoursAgo" \in DOMAIN request.args THEN request.args.hoursAgo ELSE 24

\* The (job, build) positions of the upstream batch that qualify.
QualifyingBuilds ==
  LET jobs == replies[1].data.jobs
  IN  {<<j, k>> \in (DOMAIN jobs) \X (1..MaxBuilds) :
         /\ jobs[j].builds # None
         /\ k \in DOMAIN jobs[j].builds[1]
         /\ jobs[j].builds[1][k].timestamp >= now - EffectiveHours * 3600000
         /\ jobs[j].builds[1][k].result \in {"FAILURE", "UNSTABLE"}}

C7_FailedJobsExactAndSorted ==
  Fetched("jenkins_get_failed_jobs") =>
    LET out == Response.text
        jobs == replies[1].data.jobs
    IN  /\ ~Response.isError
        /\ Len(out) = Cardinality(QualifyingBuilds)
        /\ \A q \in QualifyingBuilds :
             \E i \in DOMAIN out :
               /\ out[i].name = jobs[q[1]].name
               /\ out[i].buildNumber = jobs[q[1]].builds[1][q[2]].number
               /\ out[i].result = jobs[q[1]].builds[1][q[2]].result
               /\ out[i].timestamp = ToISOString(jobs[q[1]].builds[1][q[2]].timestamp)
        /\ \A i, j \in DOMAIN out :
             i < j => DateGetTime(out[i].timestamp) >= DateGetTime(out[j].timestamp)

\* Two builds qualify, the older one first upstream, and a third is left out.
C7_Witness ==
  /\ Fetched("jenkins_get_failed_jobs")
  /\ Len(Response.text) = 2
  /\ Response.text[1].buildNumber > Response.text[2].buildNumber
  /\ DateGetTime(Response.text[1].timestamp) > DateGetTime(Response.text[2].timestamp)

(***************************************************************************)
(* C8.  jenkins_get_build_console outside tail mode, on a log of L lines   *)
(* with the ceiling C = 3000: if L > C the output is the first C/2 lines,  *)
(* one marker stating that L - C lines were truncated (set off by a blank  *)
(* line on either side) and the last C/2 lines, in that order; if L <= C   *)
(* the output is the upstream text.                                        *)
(***************************************************************************)
TailRequested == "tailLines" \in DOMAIN request.args /\ request.args.tailLines > 0

C8_MiddleTruncation ==
  (Fetched("jenkins_get_build_console") /\ ~TailRequested) =>
    LET lines == replies[1].data
        L == Len(lines)
        C == 3000
    IN  /\ ~Response.isError
        /\ L > C =>
             Response.text =
               SubSeq(lines, 1, C \div 2)
                 \o <<<< >>, <<"... [", ToString(L - C), " lines truncated] ...">>, << >>>>
                 \o SubSeq(lines, L - (C \div 2) + 1, L)
        /\ L <= C => Response.text = lines

C8_Witness ==
  /\ Fetched("jenkins_get_build_console")
  /\ ~TailRequested
  /\ Len(replies[1].data) = 3001
  /\ Len(Response.text) = 3003
  /\ Response.text[1502] = <<"... [", "1", " lines truncated] ...">>

(***************************************************************************)
(* C9.  jenkins_get_build_console with tailLines = N > 0 on a log of L     *)
(* lines: the output holds exactly the last min(N, L) lines, preceded by a *)
(* header stating that L - N lines were skipped exactly when L > N.  With  *)
(* N <= 0 or unset, tail mode is skipped and the middle truncation         *)
(* applies: no header, and a log within the ceiling comes back whole.      *)
(***************************************************************************)
TailHeader(N, L) ==
  <<"[Showing last ", ToString(N), " of ", ToString(L), " lines (", ToString(L - N),
    " lines skipped)]">>

C9_TailMode ==
  Fetched("jenkins_get_build_console") =>
    LET lines == replies[1].data
        L == Len(lines)
        N == request.args.tailLines
        kept == IF N < L THEN N ELSE L
    IN  /\ ~Response.isError
        /\ TailRequested =>
             /\ L > N => Response.text = <<TailHeader(N, L), << >>>> \o SubSeq(lines, L - kept + 1, L)
             /\ L <= N => Response.text = SubSeq(lines, L - kept + 1, L)
        /\ ~TailRequested =>
             /\ \A k \in DOMAIN Response.text : Head(Response.text[k] \o <<"">>) # "[Showing last "
             /\ L <= maxLines => Response.text = lines
             /\ L > maxLines => Len(Response.text) = maxLines + 3

C9_Witness ==
  /\ Fetched("jenkins_get_build_console")
  /\ TailRequested
  /\ request.args.tailLines = 2
  /\ Len(replies[1].data) = 5
  /\ Response.text = <<TailHeader(2, 5), << >>, replies[1].data[4], replies[1].data[5]>>

(***************************************************************************)
(* C10.  jenkins_search_build_console: for every log and maxMatches >= 0,  *)
(* the number of reported matches (totalMatches) never exceeds maxMatches, *)
(* and truncated is true exactly when it reached maxMatches.               *)
(***************************************************************************)
EffectiveMaxMatches ==
  IF "maxMatches" \in DOMAIN request.args THEN request.args.maxMatches ELSE 50

C10_MatchCap ==
  (Fetched("jenkins_search_build_console") /\ ~Response.isError) =>
    /\ Response.text.totalMatches = Len(Response.text.matches)
    /\ Response.text.totalMatches <= EffectiveMaxMatches
    /\ Response.text.truncated <=> Response.text.totalMatches = EffectiveMaxMatches

\* The cap cut the scan short: a later line matches and was not reported.
C10_Witness ==
  /\ Fetched("jenkins_search_build_console")
  /\ ~Response.isError
  /\ EffectiveMaxMatches = 2
  /\ Response.text.totalMatches = 2
  /\ Response.text.truncated
  /\ Response.text.matches[2].line < Len(replies[1].data)
  /\ SearchRegexTest(request.args.pattern, replies[1].data[Len(replies[1].data)])

(***************************************************************************)
(* C11.  jenkins_compare_builds on builds b1 and b2: durationDiff is       *)
(* b2.duration - b1.duration; durationDiffPercent is 0 when b1.duration is *)
(* 0 and otherwise durationDiff / b1.duration * 100 to the nearest tenth   *)
(* (durations 100 and 150 give 50 and 50.0); resultChanged tells whether   *)
(* the two results differ, null differing from every non-null result.      *)
(***************************************************************************)
BothBuildsFetched ==
  /\ Done("jenkins_compare_builds")
  /\ DOMAIN replies = {1, 2}
  /\ replies[1].kind = "ok"
  /\ replies[2].kind = "ok"

Abs(x) == IF x < 0 THEN -x ELSE x

C11_CompareArithmetic ==
  BothBuildsFetched =>
    LET b1 == replies[1].data
        b2 == replies[2].data
        changes == Response.text.changes
    IN  /\ Len(responses) = 1
        /\ ~Response.isError
        /\ changes.durationDiff = b2.duration - b1.duration
        /\ b1.duration = 0 => changes.durationDiffPercentTenths = 0
        /\ b1.duration > 0 =>
             2 * Abs(changes.durationDiffPercentTenths * b1.duration
                       - 1000 * changes.durationDiff) <= b1.duration
        /\ (b1.duration = 100 /\ b2.duration = 150) =>
             (changes.durationDiff = 50 /\ changes.durationDiffPercentTenths = 500)
        /\ changes.resultChanged = (b1.result # b2.result)
        /\ ((b1.result = Null) # (b2.result = Null)) => changes.resultChanged

C11_Witness ==
  /\ BothBuildsFetched
  /\ replies[1].data.duration = 100
  /\ replies[2].data.duration = 150
  /\ replies[1].data.result = Null
  /\ replies[2].data.result = "SUCCESS"
  /\ Response.text.changes.resultChanged
  /\ Response.text.changes.durationDiffPercentTenths = 500

C11_WitnessZeroDuration ==
  /\ BothBuildsFetched
  /\ replies[1].data.duration = 0
  /\ replies[2].data.duration = 150
  /\ Response.text.changes.durationDiffPercentTenths = 0

(***************************************************************************)
(* C12.  The status classifier equals the reference mapping on every color *)
(* token: a token ending in the in-progress suffix "_anime" is building    *)
(* whatever precedes it; otherwise blue is success, red failure, yellow    *)
(* unstable, aborted aborted, notbuilt and disabled not_built; the empty   *)
(* token and every other token are unknown.                                *)
(***************************************************************************)
ReferenceStatus(color) ==
  IF color # << >> /\ color[Len(color)] = "_anime" THEN "building"
  ELSE CASE color = <<"blue">> -> "success"
         [] color = <<"red">> -> "failure"
         [] color = <<"yellow">> -> "unstable"
         [] color = <<"aborted">> -> "aborted"
         [] color = <<"notbuilt">> -> "not_built"
         [] color = <<"disabled">> -> "not_built"
         [] OTHER -> "unknown"

C12_ClassifierIsReference ==
  Fetched("jenkins_list_jobs_summary") =>
    /\ ~Response.isError
    /\ Len(Response.text) = Len(replies[1].data.jobs)
    /\ \A i \in DOMAIN Response.text :
         Response.text[i].status = ReferenceStatus(replies[1].data.jobs[i].color)

(***************************************************************************)
(* C13.  An invocation that lacks an argument its tool declares required   *)
(* is rejected before dispatch: no upstream request is ever issued for it, *)
(* and its response is an "Error: " text with the error flag set.          *)
(***************************************************************************)
MissingRequired ==
  \E f \in Required(request.name) : ~request.hasArgs \/ f \notin DOMAIN request.args

C13_MissingArgumentRejected ==
  MissingRequired =>
    /\ pc = "done"
    /\ sent = << >>
    /\ replies = << >>
    /\ Len(responses) = 1
    /\ Response.isError
    /\ Response.text[1] = "Error: "
    /\ ~escaped

C13_Witness ==
  /\ Done("jenkins_get_test_results")
  /\ request.hasArgs
  /\ DOMAIN request.args = {"jobName"}
  /\ request.args.jobName = <<"app">>
  /\ sent = << >>
  /\ Response.isError

(***************************************************************************)
(* C14.  A jenkins_search_build_console call whose pattern is not a valid  *)
(* regular expression fails with the message "Invalid regex pattern: "     *)
(* followed by the pattern, whatever the outcome of the console fetch.     *)
(***************************************************************************)
InvalidPatternSearched ==
  /\ Done("jenkins_search_build_console")
  /\ request.hasArgs
  /\ Required(request.name) \subseteq DOMAIN request.args
  /\ ~SearchRegexCompiles(request.args.pattern)

C14_InvalidPatternIsInvalidInput ==
  InvalidPatternSearched =>
    /\ Len(responses) = 1
    /\ Response.isError
    /\ Response.text = <<"Error: ", "Invalid regex pattern: ">> \o request.args.pattern

(***************************************************************************)
(* C15.  jenkins_get_failed_jobs and jenkins_get_recent_failures_summary   *)
(* invoked without an hoursAgo value, the argument record being empty or   *)
(* absent: the query is issued and its response is the one the same        *)
(* upstream answer gives with hoursAgo = 24.                               *)
(***************************************************************************)
WindowTools == {"jenkins_get_failed_jobs", "jenkins_get_recent_failures_summary"}

WithoutHoursAgo ==
  /\ pc = "done"
  /\ request.name \in WindowTools
  /\ "hoursAgo" \notin DOMAIN request.args

With24Hours == [name |-> request.name, hasArgs |-> TRUE, args |-> [hoursAgo |-> 24]]

C15_DefaultWindowIs24 ==
  WithoutHoursAgo =>
    /\ Len(sent) = 1
    /\ [method |-> sent[1].method, path |-> sent[1].path, timeout |-> sent[1].timeout]
         = HandlerStart(With24Hours).value[1]
    /\ DOMAIN replies = {1}
    /\ responses =
         ToolResponse(HandlerResume(With24Hours, now, AxiosResult(replies[1], sent[1]))).returned
    /\ replies[1].kind = "ok" => ~Response.isError

(***************************************************************************)
(* C16.  Every upstream request carries an Authorization header, "Basic "  *)
(* followed by the base64 encoding of "principal:token", if and only if    *)
(* both the principal and the token are configured; otherwise it carries   *)
(* no Authorization header.  (The principal "ci" with the token "s3" gives *)
(* "Basic Y2k6czM=".)                                                      *)
(***************************************************************************)
BothConfigured == config.username # << >> /\ config.apiToken # << >>

C16_WitnessAnonymous ==
  /\ Len(sent) = 1
  /\ config.username = << >>
  /\ config.apiToken = <<"s", "3">>
  /\ sent[1].headers.Authorization = None

(***************************************************************************)
(* C17.  Startup.  Without a base URL the process exits with a non-zero    *)
(* code, and it never connects the transport or handles a tool call.  With *)
(* a base URL but without the principal or the token, a warning is written *)
(* and the server does start: it comes to serve calls, and the requests it *)
(* issues are anonymous.                                                   *)
(***************************************************************************)
StartupWarning ==
  <<"Warning: JENKINS_USERNAME and JENKINS_API_TOKEN not set. Authentication may fail.">>

Connected == <<"Jenkins MCP server running">> \in Range(stderr)

Validated == pc # "loading"

StartupSafety ==
  /\ (Validated /\ config.baseUrl = << >>) =>
       /\ pc = "exited"
       /\ exitCode # None
       /\ exitCode[1] # 0
       /\ ~Connected
       /\ sent = << >>
       /\ responses = << >>
  /\ (Validated /\ config.baseUrl # << >>) =>
       /\ exitCode = None
       /\ pc # "exited"
       /\ (StartupWarning \in Range(stderr)) <=> ~BothConfigured
       /\ ~BothConfigured => \A i \in DOMAIN sent : sent[i].headers.Authorization = None
  /\ pc \in {"idle", "awaiting", "done"} => Connected

C17_Startup ==
  /\ []StartupSafety
  /\ (pc = "loading" /\ config.baseUrl # << >>) ~> (pc = "idle")
  /\ (pc = "loading" /\ config.baseUrl = << >>) ~> (pc = "exited")

C17_Witness ==
  /\ Done("jenkins_get_job_status")
  /\ config.username = <<"c", "i">>
  /\ config.apiToken = << >>
  /\ StartupWarning \in Range(stderr)
  /\ Len(sent) = 1
  /\ sent[1].headers.Authorization = None
  /\ replies # << >>
  /\ ~Response.isError

C17_WitnessExit ==
  /\ pc = "exited"
  /\ exitCode = Some(1)

(***************************************************************************)
(* C18.  The surfaced response does not depend on the configured token: a  *)
(* run that differs only in the API token and receives the same upstream   *)
(* answers surfaces the same response; and neither the token, nor the      *)
(* value of the Authorization header, nor the body of an upstream error    *)
(* response appears in a surfaced message.                                 *)
(***************************************************************************)
Tokens == {<< >>, <<"s", "3">>, <<"t", "0">>}

\* What axios hands over for request i in the run configured with cfg.
ReceivedUnder(i, cfg) ==
  AxiosResult(replies[i], WithHeaders(sent[i], GetAuthHeaders(JenkinsClientOf(cfg))))

\* The responses the run configured with cfg can surface for the same
\* request and the same upstream answers.
SurfacedUnder(cfg) ==
  IF request.name = "jenkins_health_check" /\ JenkinsClientOf(cfg).baseUrl = << >>
    THEN {ToolResponse(HealthCheckUnconfigured)}
  ELSE IF sent = << >> THEN {ToolResponse(HandlerStart(request))}
  ELSE IF request.name # "jenkins_compare_builds"
    THEN {ToolResponse(HandlerResume(request, now, ReceivedUnder(1, cfg)))}
  ELSE LET args == Properties(request)
           number(k) == IF k = 1 THEN args.buildNumber1 ELSE args.buildNumber2
           build(k) == GetBuildDetails(args.jobName, number(k), ReceivedUnder(k, cfg))
       IN  {ToolResponse(CompareBuildsRejected(build(k))) :
              k \in {j \in DOMAIN replies : ~build(j).ok}}
             \cup (IF DOMAIN replies = {1, 2} /\ build(1).ok /\ build(2).ok
                    THEN {ToolResponse(CompareBuildsResolved(build(1).value, build(2).value))}
                    ELSE {})

SurfacedMessages ==
  IF Response.isError THEN {Response.text}
  ELSE IF request.name = "jenkins_health_check" THEN {Response.text.message}
  ELSE {}

Secrets ==
  {ErrorBody}
    \cup (IF config.apiToken = << >> THEN {} ELSE {config.apiToken})
    \cup {h[1] : h \in {GetAuthHeaders(JenkinsClientOf(config)).Authorization} \ {None}}

C18_TokenNeverSurfaces ==
  pc = "done" =>
    /\ \A tok \in Tokens :
         [returned |-> responses, thrown |-> escaped]
           \in SurfacedUnder([config EXCEPT !.apiToken = tok])
    /\ \A message \in SurfacedMessages : \A secret \in Secrets :
         ~Contains(message, secret)

C18_Witness ==
  /\ Done("jenkins_get_queue_status")
  /\ config.username = <<"c", "i">>
  /\ config.apiToken = <<"s", "3">>
  /\ sent[1].headers.Authorization # None
  /\ DOMAIN replies = {1}
  /\ replies[1].kind = "status"
  /\ replies[1].status = 500
  /\ Response.isError
  /\ Response.text =
       <<"Error: ", "Failed to get build queue: ", "Request failed with status code ", "500">>

(***************************************************************************)
(* C19.  jenkins_get_test_results: with the cases of all suites flattened  *)
(* in upstream order, and a case failed iff its status is FAILED or        *)
(* REGRESSION, failedTests is exactly the first min(20, number of failed   *)
(* cases) failed cases in that order; so it never has more than 20         *)
(* entries, and no error message has more than 500 characters.             *)
(***************************************************************************)
RECURSIVE FlattenCases(_)
FlattenCases(suites) ==
  IF suites = << >> THEN << >>
  ELSE (IF Head(suites).cases = None THEN << >> ELSE Head(suites).cases[1])
         \o FlattenCases(Tail(suites))

IsFailedCase(testCase) == testCase.status \in {"FAILED", "REGRESSION"}

UpstreamFailedCases ==
  IF replies[1].data.suites = None THEN << >>
  ELSE SelectSeq(FlattenCases(replies[1].data.suites[1]), IsFailedCase)

C19_FirstTwentyFailedCases ==
  Fetched("jenkins_get_test_results") =>
    LET failed == UpstreamFailedCases
        failedTests == Response.text.failedTests
    IN  /\ ~Response.isError
        /\ Len(failedTests) = Min(20, Len(failed))
        /\ Len(failedTests) <= 20
        /\ \A i \in DOMAIN failedTests :
             /\ failedTests[i].name = failed[i].name
             /\ failedTests[i].className = failed[i].className
             /\ (failedTests[i].errorMessage = None) <=> (failed[i].errorDetails = None)
             /\ failedTests[i].errorMessage # None =>
                  /\ failedTests[i].errorMessage[1].chars <= 500
                  /\ failedTests[i].errorMessage[1].chars =
                       Min(failed[i].errorDetails[1].chars, 500)

C19_Witness ==
  /\ Fetched("jenkins_get_test_results")
  /\ Len(UpstreamFailedCases) = 21
  /\ Len(replies[1].data.suites[1][1].cases[1]) = 10
  /\ Len(Response.text.failedTests) = 20
  /\ Response.text.failedTests[20].name = <<"t", "32">>
  /\ Response.text.failedTests[20].errorMessage = Some([chars |-> 500])

(***************************************************************************)
(* C20.  jenkins_get_pipeline_stages returns the stages in upstream order; *)
(* failedStage is the name of the first stage, in that order, whose status *)
(* is FAILED or ABORTED, and it is absent exactly when no stage has such a *)
(* status.                                                                 *)
(***************************************************************************)
UpstreamStages ==
  IF replies[1].data.stages = None THEN << >> ELSE replies[1].data.stages[1]

StageFailed(stage) == stage.status \in {"FAILED", "ABORTED"}

C20_FirstFailedStage ==
  Fetched("jenkins_get_pipeline_stages") =>
    LET upstream == UpstreamStages
        stages == Response.text.stages
        failedStage == Response.text.failedStage
        failing == {i \in DOMAIN upstream : StageFailed(upstream[i])}
    IN  /\ ~Response.isError
        /\ Len(stages) = Len(upstream)
        /\ \A i \in DOMAIN stages :
             /\ stages[i].name = upstream[i].name
             /\ stages[i].status = upstream[i].status
             /\ stages[i].durationMillis = upstream[i].durationMillis
             /\ stages[i].startTimeMillis = upstream[i].startTimeMillis
        /\ (failedStage = None) <=> (failing = {})
        /\ failing # {} =>
             \E i \in failing :
               /\ \A j \in failing : i <= j
               /\ failedStage = Some(upstream[i].name)

C20_Witness ==
  /\ Fetched("jenkins_get_pipeline_stages")
  /\ Len(UpstreamStages) = 3
  /\ UpstreamStages[1].status = "UNSTABLE"
  /\ UpstreamStages[2].status = "ABORTED"
  /\ UpstreamStages[3].status = "FAILED"
  /\ Response.text.failedStage = Some(<<"stage", "2">>)

(***************************************************************************)
(* C21.  jenkins_get_node_status: an agent is temporarily_offline when it  *)
(* is offline with the temporarily-offline flag set, offline when it is    *)
(* offline without the flag, and online otherwise, the flag alone not      *)
(* counting; totalNodes = onlineNodes + offlineNodes, offlineNodes         *)
(* counting the offline and the temporarily_offline agents.                *)
(***************************************************************************)
ReferenceNodeStatus(node) ==
  CASE node.offline /\ node.temporarilyOffline -> "temporarily_offline"
    [] node.offline /\ ~node.temporarilyOffline -> "offline"
    [] OTHER -> "online"

C21_NodeClassificationAndCounts ==
  Fetched("jenkins_get_node_status") =>
    LET computer == replies[1].data.computer
        status == Response.text
        with(S) == Cardinality({i \in DOMAIN computer : ReferenceNodeStatus(computer[i]) \in S})
    IN  /\ ~Response.isError
        /\ Len(status.nodes) = Len(computer)
        /\ \A i \in DOMAIN computer :
             status.nodes[i].status = ReferenceNodeStatus(computer[i])
        /\ status.totalNodes = Len(computer)
        /\ status.onlineNodes = with({"online"})
        /\ status.offlineNodes = with({"offline", "temporarily_offline"})
        /\ status.totalNodes = status.onlineNodes + status.offlineNodes

C21_Witness ==
  /\ Fetched("jenkins_get_node_status")
  /\ Len(replies[1].data.computer) = 3
  /\ [i \in 1..3 |-> Response.text.nodes[i].status]
       = <<"online", "temporarily_offline", "offline">>
  /\ ~replies[1].data.computer[1].offline
  /\ replies[1].data.computer[1].temporarilyOffline
  /\ Response.text.onlineNodes = 1
  /\ Response.text.offlineNodes = 2

(***************************************************************************)
(* C22.  jenkins_list_jobs_summary returns one entry per upstream job, in  *)
(* upstream order, with status = classify(color), lastBuildNumber the last *)
(* build's number and lastBuildTime the ISO form of its timestamp; the two *)
(* are null if and only if the job has no prior build.                     *)
(***************************************************************************)
SummaryEntryIsExact(entry, job) ==
  /\ entry.name = job.name
  /\ entry.url = job.url
  /\ (entry.lastBuildNumber = None) <=> (job.lastBuild = None)
  /\ (entry.lastBuildTime = None) <=> (job.lastBuild = None)
  /\ job.lastBuild # None =>
       /\ entry.lastBuildNumber = Some(job.lastBuild[1].number)
       /\ entry.lastBuildTime = Some(ToISOString(job.lastBuild[1].timestamp))

C22_SummaryPerJob ==
  Fetched("jenkins_list_jobs_summary") =>
    LET jobs == replies[1].data.jobs
        summary == Response.text
    IN  /\ ~Response.isError
        /\ Len(summary) = Len(jobs)
        /\ \A i \in DOMAIN jobs :
             /\ SummaryEntryIsExact(summary[i], jobs[i])
             /\ summary[i].status = ReferenceStatus(jobs[i].color)

(***************************************************************************)
(* C23.  compareBuilds issues its two fetches concurrently: the second is  *)
(* in flight before the first has settled, so they settle in either order. *)
(* The comparison is computed only once both have completed successfully,  *)
(* and the call fails as a whole, without a comparison, if either fails.   *)
(***************************************************************************)
Comparing == request.name = "jenkins_compare_builds" /\ sent # << >>

C23_ConcurrentFetches ==
  Comparing =>
    /\ Len(sent) = 2
    /\ pc \in {"awaiting", "done"}
    /\ pc = "awaiting" =>
         /\ responses = << >>
         /\ \A i \in DOMAIN replies : replies[i].kind = "ok"
         /\ Pending # {}
    /\ pc = "done" =>
         /\ Len(responses) = 1
         /\ ~escaped
         /\ ~Response.isError =>
              /\ DOMAIN replies = {1, 2}
              /\ \A i \in {1, 2} : replies[i].kind = "ok"
         /\ (\E i \in DOMAIN replies : replies[i].kind # "ok") =>
              /\ Response.isError
              /\ Contains(Response.text, <<"Failed to compare builds: ">>)
         /\ BothBuildsFetched => ~Response.isError

\* The second fetch has resolved while the first is still in flight.
C23_Witness ==
  /\ Comparing
  /\ pc = "awaiting"
  /\ DOMAIN replies = {2}
  /\ 1 \in Pending

\* The first fetch resolved, then the second failed: no comparison.
C23_WitnessSecondFails ==
  /\ Done("jenkins_compare_builds")
  /\ DOMAIN replies = {1, 2}
  /\ replies[1].kind = "ok"
  /\ replies[2].kind # "ok"
  /\ Response.isError

(***************************************************************************)
(* C24.  Every invocation of a client method issues exactly one upstream   *)
(* HTTP GET (exactly two for compareBuilds) and no request of any other    *)
(* method; after an upstream failure or timeout nothing more is requested  *)
(* and the error is what the caller gets.                                  *)
(***************************************************************************)
\* The handler has passed its own checks and called the client.
ClientInvoked == pc \in {"awaiting", "done"} /\ HandlerStart(request).ok

RequestsDue == IF request.name = "jenkins_compare_builds" THEN 2 ELSE 1

C24_OneGetNoRetry ==
  ClientInvoked =>
    /\ Len(sent) = RequestsDue
    /\ \A i \in DOMAIN sent : sent[i].method = "GET"
    /\ (\E i \in DOMAIN replies : replies[i].kind # "ok") =>
         /\ pc = "done"
         /\ Len(responses) = 1
         /\ request.name # "jenkins_health_check" => Response.isError
         /\ request.name = "jenkins_health_check" => ~Response.text.healthy

(***************************************************************************)
(* C25.  Invocations are independent under interleaving: the response of   *)
(* each is the response it gives when run alone with the same arguments,   *)
(* upstream answer and clock; a step of one invocation changes nothing of  *)
(* another; the configuration never changes after construction.            *)
(***************************************************************************)
\* The response of the request run alone under cfg at clock, its upstream
\* request (if it issues one) being answered with answers[1].
RunAlone(req, cfg, clock, answers) ==
  IF req.name = "jenkins_health_check" /\ JenkinsClientOf(cfg).baseUrl = << >>
    THEN ToolResponse(HealthCheckUnconfigured)
  ELSE IF ~HandlerStart(req).ok THEN ToolResponse(HandlerStart(req))
  ELSE ToolResponse(HandlerResume(req, clock,
         AxiosResult(answers[1],
                     WithHeaders(HandlerStart(req).value[1],
                                 GetAuthHeaders(JenkinsClientOf(cfg))))))

AsRunAlone ==
  \A s \in Invocations :
    /\ pc[s] # "done" => responses[s] = << >> /\ ~escaped[s]
    /\ pc[s] = "done" =>
         [returned |-> responses[s], thrown |-> escaped[s]]
           = RunAlone(request[s], config, now, replies[s])

\* The part of the state that belongs to invocation s.
Own(s) == <<pc[s], request[s], sent[s], replies[s], responses[s], escaped[s]>>

StepsAreLocal ==
  /\ config' = config
  /\ \A s, t \in Invocations : (s # t /\ Own(t)' # Own(t)) => Own(s)' = Own(s)

C25_InvocationsIndependent == []AsRunAlone /\ [][StepsAreLocal]_vars

\* The second invocation has been answered by the upstream and has returned
\* its error while the first, for another tool, is still waiting for its
\* own answer.
C25_Witness ==
  /\ pc[1] = "awaiting"
  /\ request[1].name = "jenkins_get_job_status"
  /\ sent[1] # << >> /\ replies[1] = << >>
  /\ pc[2] = "done"
  /\ request[2].name = "jenkins_get_queue_status"
  /\ replies[2] # << >> /\ replies[2][1].kind # "ok"
  /\ responses[2][1].isError

(***************************************************************************)
(* C26.  jenkins_search_build_console with contextLines K >= 0 scans the   *)
(* lines in increasing order and never reports a line that lies in the     *)
(* context range of an earlier reported block: the reported line numbers   *)
(* are strictly increasing, each lies outside every earlier block, and     *)
(* each block holds its own matched line, marked, exactly once.            *)
(***************************************************************************)
Searched == Fetched("jenkins_search_build_console") /\ ~Response.isError

\* The entries of a block that carry the match marker.
Marked(match) == {k \in DOMAIN match.context : match.context[k][1] = ">>> "}

C26_NoMatchInsideEarlierBlock ==
  Searched =>
    LET lines == replies[1].data
        matches == Response.text.matches
    IN  \A m \in DOMAIN matches :
          /\ matches[m].line \in DOMAIN lines
          /\ SearchRegexTest(request.args.pattern, lines[matches[m].line])
          /\ \A e \in 1..(m - 1) :
               /\ matches[e].line < matches[m].line
               /\ ToString(matches[m].line) \notin BlockLineNumbers(matches[e])
          /\ Cardinality(Marked(matches[m])) = 1
          /\ \A k \in Marked(matches[m]) :
               matches[m].context[k]
                 = <<">>> ", ToString(matches[m].line), ": ">> \o lines[matches[m].line]

\* A matching line inside the first block was passed over and a later
\* match, outside that block, was reported.
C26_Witness ==
  /\ Searched
  /\ Len(Response.text.matches) = 2
  /\ Response.text.matches[1].line = 1
  /\ Response.text.matches[2].line = 4
  /\ SearchRegexTest(request.args.pattern, replies[1].data[2])
  /\ ToString(2) \in BlockLineNumbers(Response.text.matches[1])

(***************************************************************************)
(* C27.  In jenkins_search_jobs every pattern character other than `*` and *)
(* `?` matches only itself: a listed job is returned if and only if the    *)
(* reference glob matcher accepts its name, a pattern without wildcards    *)
(* returns only jobs named like the pattern (up to case), and no pattern   *)
(* makes the call fail.                                                    *)
(***************************************************************************)
Wildcards == {"*", "?"}

FoldName(str) == [i \in DOMAIN str |-> FoldCase(str[i])]

C27_LiteralCharactersMatchThemselves ==
  Fetched("jenkins_search_jobs") =>
    LET jobs == replies[1].data.jobs
        pattern == request.args.pattern
    IN  /\ ~Response.isError
        /\ \A i \in DOMAIN jobs :
             (\E k \in DOMAIN Response.text : Response.text[k].name = jobs[i].name)
               <=> GlobMatches(pattern, jobs[i].name)
        /\ Range(pattern) \cap Wildcards = {} =>
             \A k \in DOMAIN Response.text :
               FoldName(Response.text[k].name) = FoldName(pattern)

(***************************************************************************)
(* C28.  The outcome of compareBuilds is a function of the two upstream    *)
(* responses alone: whichever fetch completes first, the same two          *)
(* responses give the same outcome, also when both fetches fail with       *)
(* different errors.                                                       *)
(***************************************************************************)
\* What compareBuilds yields on the two upstream responses of this run when
\* the fetch `first` settles before the other.
CompareOutcome(first) ==
  LET args == Properties(request)
      number(k) == IF k = 1 THEN args.buildNumber1 ELSE args.buildNumber2
      build(k) == GetBuildDetails(args.jobName, number(k),
                                  AxiosResult(replies[k], sent[k]))
      second == 3 - first
  IN  IF ~build(first).ok THEN CompareBuildsRejected(build(first))
      ELSE IF ~build(second).ok THEN CompareBuildsRejected(build(second))
      ELSE CompareBuildsResolved(build(1).value, build(2).value)

BothSettled == Done("jenkins_compare_builds") /\ DOMAIN replies = {1, 2}

C28_CompareOrderIndependent ==
  BothSettled =>
    /\ CompareOutcome(1) = CompareOutcome(2)
    /\ responses = ToolResponse(CompareOutcome(1)).returned

(***************************************************************************)
(* C29.  jenkins_health_check never produces an error response: whatever   *)
(* the upstream does, the call returns a payload without the error flag;   *)
(* healthy is true if and only if the upstream answered HTTP 200, and      *)
(* every upstream failure is reported as healthy = false with a message.   *)
(***************************************************************************)
HealthChecked == Done("jenkins_health_check")

C29_HealthCheckNeverErrors ==
  HealthChecked =>
    /\ Len(responses) = 1
    /\ ~escaped
    /\ ~Response.isError
    /\ Response.text.healthy
         <=> (replies # << >> /\ replies[1].kind = "ok" /\ replies[1].status = 200)
    /\ ~Response.text.healthy => Response.text.message # << >>
    /\ (replies # << >> /\ replies[1].kind # "ok") =>
         /\ ~Response.text.healthy
         /\ Head(Response.text.message) = "Health check failed: "
         /\ Len(Response.text.message) > 1

\* The upstream did not answer in time.
C29_Witness ==
  /\ HealthChecked
  /\ replies # << >>
  /\ replies[1].kind = "timeout"
  /\ ~Response.isError
  /\ ~Response.text.healthy

\* The upstream answered 204: reachable, yet not reported healthy.
C29_WitnessNoContent ==
  /\ HealthChecked
  /\ replies # << >>
  /\ replies[1].kind = "ok"
  /\ replies[1].status = 204
  /\ Response.text = [healthy |-> FALSE, message |-> <<"Unexpected status: ", "204">>]

(***************************************************************************)
(* C30.  The truncated flag of jenkins_search_build_console is true only   *)
(* when the cap cut something off: some matching line that no reported     *)
(* block covers lies after the last reported match and went unreported.    *)
(***************************************************************************)
\* The matching lines after the last reported match that no reported block
\* covers: what the scan would still have reported without the cap.
LeftUnreported ==
  LET lines == replies[1].data
      matches == Response.text.matches
      K == OrDefault(Arg(request, "contextLines"), DefaultContextLines)
      last == IF matches = << >> THEN 0 ELSE matches[Len(matches)].line
      covered == UNION {ContextRange(lines, matches[m].line, K) : m \in DOMAIN matches}
  IN  {j \in (last + 1)..Len(lines) :
         SearchRegexTest(request.args.pattern, lines[j]) /\ j \notin covered}

C30_TruncatedOnlyWhenCut ==
  Searched => (Response.text.truncated => LeftUnreported # {})

====
